---- MODULE Spec2Model ----
(***************************************************************************)
(* Candidates grading system: the team formation engine                    *)
(* (takehome/team_algorithm.py), the resilient scoring client              *)
(* (takehome/external_api.py) and the record store with the request        *)
(* handlers that use both (takehome/database.py, takehome/routes.py).      *)
(***************************************************************************)
EXTENDS Integers, Sequences, FiniteSets, TLC

VARIABLES
    tf_project,      \* form_optimal_team argument: project.skills
    tf_candidates,   \* form_optimal_team argument: candidates
    tf_team_size,    \* form_optimal_team argument: team_size
    tf_response,     \* the TeamFormationResponse returned
    tf_evaluated,    \* the subsets _evaluate_team was called with, in order
    tf_pc,           \* "ready" before the call, "returned" after it
    cache,           \* ExternalAPIService._cache: cache_key -> score
    tasks,           \* the running callers of the scoring client, one record each
    db_projects,        \* Database.projects: id -> Project
    db_candidates,      \* Database.candidates: id -> the Candidate object, by reference
    objects,         \* the Candidate objects made so far; a reference is an index
    project_id_counter,    \* Database._project_id_counter
    candidate_id_counter,  \* Database._candidate_id_counter
    handlers,        \* the request handlers suspended in a call of the scoring client
    requests,        \* the number of requests received
    reply            \* the response to the request answered last

tfVars == <<tf_project, tf_candidates, tf_team_size, tf_response, tf_evaluated, tf_pc>>
scVars == <<cache, tasks>>
dbVars == <<db_projects, db_candidates, objects, project_id_counter, candidate_id_counter>>
appVars == <<dbVars, handlers, requests, reply>>

vars == <<tfVars, scVars, appVars>>

\* Optional[x]: None is the empty tuple, a value x is <<x>>
None == <<>>
Some(x) == <<x>>

(***************************************************************************)
(* Bounds of the model                                                     *)
(***************************************************************************)
MaxPool == 5        \* entries of a candidate list and skill entries of its candidates, together
MaxReq == 2         \* longest required-skill list of a project
MaxTeamSize == 3    \* largest team_size tried (0 and -1 are tried as well)
MaxCalls == 2       \* get_candidate_score calls made, by all callers together
MaxFailures == 5    \* attempts the upstream fails, of all calls together
MaxRequests == 3    \* requests the application receives
MaxIds == 3         \* candidate ids of a long form-team request

(***************************************************************************)
(* models.py                                                               *)
(***************************************************************************)
MinLevel == 1
MaxLevel == 10

SkillNames == {"py", "js"}
Levels == {MinLevel, MaxLevel}

\* Skill(name, expertise_level)
Skill == [name : SkillNames, expertise_level : Levels]

SeqsUpTo(S, n) == UNION {[1..k -> S] : k \in 0..n}

\* the numbers of S in increasing order
RECURSIVE SetToSeq(_)
SetToSeq(S) ==
    IF S = {} THEN <<>>
    ELSE LET m == CHOOSE x \in S : \A y \in S : x <= y
         IN  <<m>> \o SetToSeq(S \ {m})

SkillLists(n) == SeqsUpTo(Skill, n)

CandidateName(id) == <<"cand", id>>

\* Candidate(id, name, skills, special_score)
MkCandidate(id, skills, score) ==
    [id |-> id, name |-> CandidateName(id), skills |-> skills, special_score |-> score]

(***************************************************************************)
(* team_algorithm.py                                                       *)
(***************************************************************************)
\* coverage is a float quotient covered / total; it is kept as the exact
\* fraction <<covered, total>>, and 0.0 is <<0, 1>>
CovVacuous(n, d) == IF d > 0 THEN <<n, d>> ELSE <<1, 1>>

Cov(n, d) == IF d > 0 THEN <<n, d>> ELSE <<0, 1>>
ZeroCov == <<0, 1>>
CovGT(a, b) == a[1] * b[2] > b[1] * a[2]
CovEQ(a, b) == a[1] * b[2] = b[1] * a[2]

EmptyResponse == [team |-> <<>>, total_expertise |-> 0, coverage |-> ZeroCov]

\* required_skills = {skill.name: skill.expertise_level for skill in project.skills}
\* only the keys of the dict are read
RequiredSkills(projectSkills) == {projectSkills[i].name : i \in 1..Len(projectSkills)}

\* itertools.combinations(range(lo, n+1), k): index tuples in lexicographic order
RECURSIVE CombsFrom(_, _, _)
CombsFrom(lo, n, k) ==
    IF k = 0 THEN << <<>> >>
    ELSE IF lo > n - k + 1 THEN <<>>
    ELSE LET with == CombsFrom(lo + 1, n, k - 1)
         IN  [i \in 1..Len(with) |-> <<lo>> \o with[i]] \o CombsFrom(lo + 1, n, k)

Combinations(n, k) == CombsFrom(1, n, k)

RECURSIVE ScanOrderScored(_)
ScanOrderScored(team) ==
    IF team = <<>> THEN <<>>
    ELSE LET c == Head(team)
         IN  [i \in 1..Len(c.skills) |->
                [skill |-> c.skills[i].name, id |-> c.id, name |-> c.name,
                 expertise |-> IF c.special_score = None THEN c.skills[i].expertise_level
                               ELSE c.skills[i].expertise_level + 1]]
             \o ScanOrderScored(Tail(team))

\* the pairs (candidate, skill) in the order of the two loops of _evaluate_team
RECURSIVE ScanOrder(_)
ScanOrder(team) ==
    IF team = <<>> THEN <<>>
    ELSE LET c == Head(team)
         IN  [i \in 1..Len(c.skills) |->
                [skill |-> c.skills[i].name, id |-> c.id, name |-> c.name,
                 expertise |-> c.skills[i].expertise_level]]
             \o ScanOrder(Tail(team))

\* position of skill in the insertion-ordered dict, 0 when absent
DictIndex(dict, skill) ==
    IF \E i \in 1..Len(dict) : dict[i].skill = skill
    THEN CHOOSE i \in 1..Len(dict) : dict[i].skill = skill
    ELSE 0

ReplacesOnTie(level, current) == level >= current

ReplacesAlways(level, current) == TRUE

\* a later holder replaces the assignment only with a greater expertise_level
Replaces(level, current) == level > current

\* one iteration of the inner loop: skill_assignments after looking at entry e
AssignStep(assignments, e, required) ==
    IF e.skill \notin required THEN assignments
    ELSE LET i == DictIndex(assignments, e.skill)
             current == IF i = 0 THEN 0 ELSE assignments[i].expertise
         IN  IF Replaces(e.expertise, current)
             THEN IF i = 0 THEN Append(assignments, e)
                  ELSE [assignments EXCEPT ![i] = e]
             ELSE assignments

RECURSIVE AssignAll(_, _, _)
AssignAll(assignments, scan, required) ==
    IF scan = <<>> THEN assignments
    ELSE AssignAll(AssignStep(assignments, Head(scan), required), Tail(scan), required)

\* skill_assignments: skill -> (candidate_id, name, expertise), in insertion order
SkillAssignments(team, required) == AssignAll(<<>>, ScanOrder(team), required)

RECURSIVE SumExpertise(_)
SumExpertise(assignments) ==
    IF assignments = <<>> THEN 0
    ELSE Head(assignments).expertise + SumExpertise(Tail(assignments))

MemberIndexNone(members, id) == 0

MemberIndex(members, id) ==
    IF \E i \in 1..Len(members) : members[i].candidate_id = id
    THEN CHOOSE i \in 1..Len(members) : members[i].candidate_id = id
    ELSE 0

\* team_members: candidate_id -> TeamMember, in insertion order
RECURSIVE BuildMembers(_, _)
BuildMembers(members, assignments) ==
    IF assignments = <<>> THEN members
    ELSE LET a == Head(assignments)
             i == MemberIndex(members, a.id)
             next == IF i = 0
                     THEN Append(members, [candidate_id |-> a.id, name |-> a.name,
                                           assigned_skills |-> <<a.skill>>])
                     ELSE [members EXCEPT ![i].assigned_skills = Append(@, a.skill)]
         IN  BuildMembers(next, Tail(assignments))

RECURSIVE CountRequired(_, _)
CountRequired(scan, required) ==
    IF scan = <<>> THEN 0
    ELSE (IF Head(scan).skill \in required THEN 1 ELSE 0) + CountRequired(Tail(scan), required)

EvaluateTeamPerEntry(team, required) ==
    LET assignments == SkillAssignments(team, required)
    IN  [team |-> BuildMembers(<<>>, assignments),
         total_expertise |-> SumExpertise(assignments),
         coverage |-> Cov(CountRequired(ScanOrder(team), required), Cardinality(required))]

\* _evaluate_team(team_candidates, required_skills)
EvaluateTeam(team, required) ==
    LET assignments == SkillAssignments(team, required)
    IN  [team |-> BuildMembers(<<>>, assignments),
         total_expertise |-> SumExpertise(assignments),
         coverage |-> Cov(Len(assignments), Cardinality(required))]

BetterOrEqual(coverage, total, best_coverage, best_score) ==
    \/ CovGT(coverage, best_coverage)
    \/ (CovEQ(coverage, best_coverage) /\ total >= best_score)

BetterLoose(coverage, total, best_coverage, best_score) ==
    CovGT(coverage, best_coverage) \/ total > best_score

\* the comparison of line 54
Better(coverage, total, best_coverage, best_score) ==
    \/ CovGT(coverage, best_coverage)
    \/ (CovEQ(coverage, best_coverage) /\ total > best_score)

SubTeam(candidates, combo) == [i \in 1..Len(combo) |-> candidates[combo[i]]]

\* the loop over combinations: best is (best_team, best_score, best_coverage)
RECURSIVE SearchBest(_, _, _, _)
SearchBest(best, combos, candidates, required) ==
    IF combos = <<>> THEN best
    ELSE LET r == EvaluateTeam(SubTeam(candidates, Head(combos)), required)
             next == IF Better(r.coverage, r.total_expertise, best.coverage, best.score)
                     THEN [team |-> Some(r.team), score |-> r.total_expertise,
                           coverage |-> r.coverage]
                     ELSE best
         IN  SearchBest(next, Tail(combos), candidates, required)

Min(a, b) == IF a < b THEN a ELSE b

EffectiveSizeUnclamped(candidates, team_size) == team_size

\* the team size after line 36
EffectiveSize(candidates, team_size) == Min(team_size, Len(candidates))

DegenerateLoose(candidates, team_size) == candidates = <<>> \/ team_size < 0

\* line 29: if not candidates or team_size <= 0
Degenerate(candidates, team_size) == candidates = <<>> \/ team_size <= 0

\* the subsets the loop of line 43 hands to _evaluate_team, in its order
SubsetsEvaluated(candidates, team_size) ==
    IF Degenerate(candidates, team_size) THEN <<>>
    ELSE LET combos == Combinations(Len(candidates), EffectiveSize(candidates, team_size))
         IN  [i \in 1..Len(combos) |-> SubTeam(candidates, combos[i])]

\* form_optimal_team(project, candidates, team_size)
FormOptimalTeam(projectSkills, candidates, team_size) ==
    IF Degenerate(candidates, team_size) THEN EmptyResponse
    ELSE LET required == RequiredSkills(projectSkills)
             k == EffectiveSize(candidates, team_size)
             best == SearchBest([team |-> None, score |-> -1, coverage |-> ZeroCov],
                                Combinations(Len(candidates), k), candidates, required)
         IN  IF best.team = None THEN EmptyResponse
             ELSE [team |-> best.team[1], total_expertise |-> best.score,
                   coverage |-> best.coverage]

(***************************************************************************)
(* external_api.py                                                         *)
(***************************************************************************)
MaxRetries == 5

EmptyMap == [x \in {} |-> 0]
Put(f, k, v) == [x \in DOMAIN f \cup {k} |-> IF x = k THEN v ELSE f[x]]

\* str(n) for n >= 0, a string being the tuple of its characters
Digits == <<"0", "1", "2", "3", "4", "5", "6", "7", "8", "9">>
RECURSIVE Str(_)
Str(n) == IF n < 10 THEN <<Digits[n + 1]>> ELSE Str(n \div 10) \o <<Digits[(n % 10) + 1]>>

DigitValue(c) == (CHOOSE d \in 1..10 : Digits[d] = c) - 1
\* int(s) for a string of digits
RECURSIVE ParseInt(_)
ParseInt(s) == IF Len(s) = 1 THEN DigitValue(s[1])
          ELSE 10 * ParseInt(SubSeq(s, 1, Len(s) - 1)) + DigitValue(s[Len(s)])

\* [(skill.name, float(skill.expertise_level)) for skill in candidate.skills]
SkillsData(skills) == [i \in 1..Len(skills) |-> <<skills[i].name, skills[i].expertise_level>>]

\* hash(tuple(skills)): a deterministic, order-sensitive hash of the pairs;
\* Python's tuple hash is stood for by a polynomial hash
HashMod == 100003
NameCode(name) == CASE name = "py" -> 3 [] name = "js" -> 5 [] OTHER -> 7
RECURSIVE HashFrom(_, _)
HashFrom(h, skills) ==
    IF skills = <<>> THEN h
    ELSE HashFrom((h * 31 + NameCode(Head(skills)[1]) * 11 + Head(skills)[2]) % HashMod,
                  Tail(skills))
HashSkills(skills) == HashFrom(17, skills)

\* cache_key = f"{candidate_id}_{hash(tuple(skills))}"
CacheKey(candidate_id, skills) == candidate_id \o <<"_">> \o Str(HashSkills(skills))
EntryKey(e) == CacheKey(e[1], e[2])

\* the upstream's answers to one attempt
FailureKinds == {"transport_error", "timeout", "http_status", "success_false"}
SubScoreLists == {<<>>, <<70>>, <<60, 100>>}
Responses ==
    [kind : FailureKinds, special_scores : {<<>>}]
    \cup [kind : {"ok"}, special_scores : SubScoreLists]

RECURSIVE SumSeq(_)
SumSeq(s) == IF s = <<>> THEN 0 ELSE Head(s) + SumSeq(Tail(s))
\* sum(special_scores) / len(special_scores); the lists of SubScoreLists have
\* whole means
Mean(s) == SumSeq(s) \div Len(s)

Returned(v) == [raised |-> FALSE, value |-> v]
Raised == [raised |-> TRUE, value |-> None]

CallScoreApiEmptyIsZero(resp) ==
    CASE resp.kind = "http_status" -> Returned(None)
      [] resp.kind = "transport_error" -> Returned(None)
      [] resp.kind = "timeout" -> Returned(None)
      [] resp.kind = "success_false" -> Returned(None)
      [] OTHER -> IF resp.special_scores # <<>>
                  THEN Returned(Some(Mean(resp.special_scores)))
                  ELSE Returned(Some(0))

\* _call_score_api: every except clause returns None
CallScoreApi(resp) ==
    CASE resp.kind = "http_status" -> Returned(None)
      [] resp.kind = "transport_error" -> Returned(None)
      [] resp.kind = "timeout" -> Returned(None)
      [] resp.kind = "success_false" -> Returned(None)
      [] OTHER -> IF resp.special_scores # <<>>
                  THEN Returned(Some(Mean(resp.special_scores)))
                  ELSE Returned(None)

TryAttemptNoCatch(resp) ==
    IF resp.kind = "timeout" THEN Raised ELSE CallScoreApi(resp)

\* the try / except Exception around the attempt, lines 43-51
TryAttempt(resp) ==
    LET r == CallScoreApi(resp)
    IN  IF r.raised THEN Returned(None) ELSE r

SleepsAfterAlways(attempt) == TRUE

\* line 54: if attempt < self.max_retries - 1
SleepsAfter(attempt) == attempt < MaxRetries - 1

WaitTimeLinear(attempt) == attempt + 1

\* line 55: wait_time = 2 ** attempt
WaitTime(attempt) == 2 ^ attempt

CacheWriteAlways(c, key, value) == Put(c, key, IF value = None THEN 0 ELSE value[1])

CacheWriteEvict(c, key, value) ==
    IF value # None THEN [x \in {key} |-> value[1]] ELSE c

\* lines 45-47: the score is cached only when there is one
CacheWrite(c, key, value) == IF value # None THEN Put(c, key, value[1]) ELSE c

\* the log of one get_candidate_score call: its return value, the upstream
\* calls it made, the sleeps it took and whether it was a cache hit
HitRefetch(c, e) ==
    [score |-> Some(c[EntryKey(e)]), upstream |-> 1, sleeps |-> <<>>, hit |-> TRUE,
     fin |-> TRUE]

\* lines 37-39: the call on a cache hit
Hit(c, e) ==
    [score |-> Some(c[EntryKey(e)]), upstream |-> 0, sleeps |-> <<>>, hit |-> TRUE,
     fin |-> TRUE]

\* lines 42-44: the call on a miss, up to the first upstream request
Miss(c, e) ==
    [score |-> None, upstream |-> 1, sleeps |-> <<>>, hit |-> FALSE,
     fin |-> FALSE]

NewFetchNoCache(c, e) == Miss(c, e)

\* get_candidate_score up to its first await
NewFetch(c, e) == IF EntryKey(e) \in DOMAIN c THEN Hit(c, e) ELSE Miss(c, e)

\* the callers of the client: two of them run concurrently
TaskIds == {1, 2}

IdleTask ==
    [kind |-> "idle", pc |-> "idle", entries |-> <<>>, idx |-> 1, attempt |-> 0,
     log |-> <<>>, results |-> EmptyMap, escaped |-> FALSE]

CollectAll(results, candidate_id, score) ==
    Put(results, candidate_id, IF score # None THEN score[1] ELSE 0)

\* lines 133-134: if score is not None: results[candidate_id] = score
Collect(results, candidate_id, score) ==
    IF score # None THEN Put(results, candidate_id, score[1]) ELSE results

\* get_candidate_scores_batch keeps a results dict, a single call has none
KeepsResults(kind) == kind = "batch"

\* the caller of get_candidate_score: the calls of its list are made one after
\* the other, each when the one before it has returned, until one of them
\* waits for the upstream or the list is through (lines 131-136).
\* Advance starts call idx; Return is the caller's code once call idx has
\* returned score
RECURSIVE Advance(_, _), Return(_, _, _)
Return(task, score, c) ==
    LET i == task.idx
    IN  Advance([task EXCEPT !.log[i].score = score,
                             !.log[i].fin = TRUE,
                             !.results = IF KeepsResults(task.kind)
                                         THEN Collect(@, task.entries[i][1], score)
                                         ELSE @,
                             !.idx = @ + 1], c)

Advance(task, c) ==
    IF task.idx > Len(task.entries) THEN [task EXCEPT !.pc = "done"]
    ELSE LET f == NewFetch(c, task.entries[task.idx])
             started == [task EXCEPT !.log = Append(@, f)]
         IN  IF f.fin
             THEN Return(started, f.score, c)
             ELSE [started EXCEPT !.pc = "attempt", !.attempt = 0]

\* get_candidate_score(candidate_id, skills) called by caller t
CallScore(t, candidate_id, skills) ==
    /\ tasks[t].kind = "idle"
    /\ \A u \in 1..(t - 1) : tasks[u].kind # "idle"
    /\ tasks' = [tasks EXCEPT ![t] =
                    Advance([IdleTask EXCEPT !.kind = "score",
                                             !.entries = << <<candidate_id, skills>> >>],
                            cache)]
    /\ UNCHANGED <<cache, tfVars, appVars>>

\* get_candidate_scores_batch(candidates_data) called by caller t
CallBatch(t, candidates_data) ==
    /\ tasks[t].kind = "idle"
    /\ \A u \in 1..(t - 1) : tasks[u].kind # "idle"
    /\ tasks' = [tasks EXCEPT ![t] =
                    Advance([IdleTask EXCEPT !.kind = "batch",
                                             !.entries = candidates_data], cache)]
    /\ UNCHANGED <<cache, tfVars, appVars>>

NextIterationUnbounded(task, c) ==
    [task EXCEPT !.pc = "attempt", !.attempt = @ + 1, !.log[task.idx].upstream = @ + 1]

\* the end of one pass of the retry loop of caller t: range(self.max_retries)
\* yields the next attempt, or the loop is through and the call returns None
\* (lines 42, 59-60)
NextIteration(task, c) ==
    LET i == task.idx
    IN  IF task.attempt + 1 < MaxRetries
        THEN [task EXCEPT !.pc = "attempt", !.attempt = @ + 1, !.log[i].upstream = @ + 1]
        ELSE Return(task, None, c)

AfterAttemptNoCache(task, c, out) ==
    LET c1 == CacheWrite(c, EntryKey(task.entries[task.idx]), out.value)
        i == task.idx
    IN  IF out.raised
        THEN [task |-> [task EXCEPT !.pc = "done", !.escaped = TRUE], cache |-> c]
        ELSE IF out.value # None
        THEN [task |-> Return(task, out.value, c), cache |-> c]
        ELSE IF SleepsAfter(task.attempt)
        THEN [task |-> [task EXCEPT !.pc = "sleep",
                                    !.log[i].sleeps = Append(@, WaitTime(task.attempt))],
              cache |-> c1]
        ELSE [task |-> NextIteration(task, c1), cache |-> c1]

\* the task and the cache after the pending attempt of the caller came out as
\* out, the result of the try block (lines 45-57, and the caller's code that
\* follows a return)
AfterAttempt(task, c, out) ==
    LET c1 == CacheWrite(c, EntryKey(task.entries[task.idx]), out.value)
        i == task.idx
    IN  IF out.raised
        THEN [task |-> [task EXCEPT !.pc = "done", !.escaped = TRUE], cache |-> c]
        ELSE IF out.value # None
        THEN [task |-> Return(task, out.value, c1), cache |-> c1]
        ELSE IF SleepsAfter(task.attempt)
        THEN [task |-> [task EXCEPT !.pc = "sleep",
                                    !.log[i].sleeps = Append(@, WaitTime(task.attempt))],
              cache |-> c1]
        ELSE [task |-> NextIteration(task, c1), cache |-> c1]

\* the upstream answered the pending attempt of caller t with resp
AfterResponse(task, c, resp) == AfterAttempt(task, c, TryAttempt(resp))

\* what the attempts can come out as, over all answers of the upstream
Outcomes == {TryAttempt(r) : r \in Responses}

\* the upstream answers the pending attempt of caller t, and the attempt comes
\* out as out
UpstreamResponds(t, out) ==
    /\ tasks[t].pc = "attempt"
    /\ LET after == AfterAttempt(tasks[t], cache, out)
       IN  /\ tasks' = [tasks EXCEPT ![t] = after.task]
           /\ cache' = after.cache
    /\ UNCHANGED <<tfVars, appVars>>

\* asyncio.sleep(wait_time) is over: the loop goes on
SleepEnds(t) ==
    /\ tasks[t].pc = "sleep"
    /\ tasks' = [tasks EXCEPT ![t] = NextIteration(tasks[t], cache)]
    /\ UNCHANGED <<cache, tfVars, appVars>>

\* what a handler keeps across its await: its route, the candidate_id of its
\* path, its candidate objects, its project and its request (candidate_ids and
\* team_size)
IdleHandler ==
    [route |-> "none", candidate_id |-> 0, refs |-> <<>>, project |-> None,
     candidate_ids |-> <<>>, team_size |-> 0]

NoReply == [route |-> "none", status |-> 0, body |-> <<>>]

(***************************************************************************)
(* database.py. A Candidate is an object the store and the handlers hold   *)
(* by reference: objects is the heap, candidates maps an id to the index   *)
(* of its object. created_at and updated_at are left out. A Project is     *)
(* never changed in place and is held by value.                            *)
(***************************************************************************)
\* Database.__init__
InitDatabase ==
    /\ db_projects = EmptyMap
    /\ db_candidates = EmptyMap
    /\ objects = <<>>
    /\ project_id_counter = 1
    /\ candidate_id_counter = 1

Without(f, k) == [x \in DOMAIN f \ {k} |-> f[x]]

\* Project(id=project_id, title=project.title, skills=project.skills, ...)
NewProject(project_id, project) ==
    [id |-> project_id, title |-> project.title, skills |-> project.skills]

\* Candidate(id=candidate_id, name=candidate.name, skills=candidate.skills,
\*           special_score=special_score, ...)
NewCandidate(candidate_id, candidate, special_score) ==
    [id |-> candidate_id, name |-> candidate.name, skills |-> candidate.skills,
     special_score |-> special_score]

db_get_project_any(project_id) ==
    IF DOMAIN db_projects # {}
    THEN Some(db_projects[CHOOSE p \in DOMAIN db_projects : TRUE])
    ELSE None

\* Database.get_project
db_get_project(project_id) ==
    IF project_id \in DOMAIN db_projects THEN Some(db_projects[project_id]) ELSE None

\* Database.get_all_projects: the dict is in insertion order, the order of the ids
db_get_all_projects ==
    LET ids == SetToSeq(DOMAIN db_projects)
    IN  [i \in 1..Len(ids) |-> db_projects[ids[i]]]

\* Database.get_candidate: the reference of the object
db_get_candidate(candidate_id) ==
    IF candidate_id \in DOMAIN db_candidates THEN Some(db_candidates[candidate_id]) ELSE None

\* Database.get_all_candidates
db_get_all_candidates ==
    LET ids == SetToSeq(DOMAIN db_candidates)
    IN  [i \in 1..Len(ids) |-> objects[db_candidates[ids[i]]]]

RECURSIVE db_get_candidates_by_ids_once(_)
db_get_candidates_by_ids_once(candidate_ids) ==
    IF candidate_ids = <<>> THEN <<>>
    ELSE LET front == SubSeq(candidate_ids, 1, Len(candidate_ids) - 1)
             last == candidate_ids[Len(candidate_ids)]
             rest == db_get_candidates_by_ids_once(front)
         IN  IF /\ last \in DOMAIN db_candidates
                /\ \A i \in 1..Len(front) : front[i] # last
             THEN rest \o <<db_candidates[last]>>
             ELSE rest

\* Database.get_candidates_by_ids: the references of the ids that are stored,
\* in the order of the request
RECURSIVE db_get_candidates_by_ids(_)
db_get_candidates_by_ids(candidate_ids) ==
    IF candidate_ids = <<>> THEN <<>>
    ELSE LET rest == db_get_candidates_by_ids(Tail(candidate_ids))
         IN  IF Head(candidate_ids) \in DOMAIN db_candidates
             THEN <<db_candidates[Head(candidate_ids)]>> \o rest
             ELSE rest

\* Database.update_candidate_score on the heap objs: the stored object is
\* changed in place, a missing id changes nothing
db_update_candidate_score(objs, candidate_id, special_score) ==
    IF candidate_id \notin DOMAIN db_candidates THEN objs
    ELSE [objs EXCEPT ![db_candidates[candidate_id]].special_score = Some(special_score)]

(***************************************************************************)
(* The scoring client with concurrent callers                              *)
(***************************************************************************)
ClientIds == {Str(1), Str(2)}
ClientSkills == {SkillsData(s) : s \in [1..1 -> [name : {"py"}, expertise_level : Levels]]}
\* the (candidate_id, skills) pairs the callers ask for: one candidate with
\* two skill lists, another with one
ClientEntries == {e \in ClientIds \X ClientSkills : e[1] = Str(1) \/ e[2][1][2] = MinLevel}

RECURSIVE SumUpTo(_, _)
SumUpTo(f, n) == IF n = 0 THEN 0 ELSE f[n] + SumUpTo(f, n - 1)

\* the calls the callers have made or committed to
CallsMade == SumUpTo([t \in TaskIds |-> Len(tasks[t].entries)], Cardinality(TaskIds))

\* the attempts of one call that have failed
FailedAttempts(task, i) ==
    LET l == task.log[i]
    IN  IF l.hit THEN 0
        ELSE IF l.fin THEN (IF l.score = None THEN l.upstream ELSE l.upstream - 1)
        ELSE IF task.pc = "attempt" THEN l.upstream - 1
        ELSE l.upstream

FailuresSoFar ==
    SumUpTo([t \in TaskIds |->
                SumUpTo([i \in 1..Len(tasks[t].log) |-> FailedAttempts(tasks[t], i)],
                        Len(tasks[t].log))], Cardinality(TaskIds))

\* the upstream fails MaxFailures attempts at most
Allowed(out) == (~ out.raised /\ out.value # None) \/ FailuresSoFar < MaxFailures

InitScore ==
    /\ tf_project = <<>>
    /\ tf_candidates = <<>>
    /\ tf_team_size = 0
    /\ tf_response = EmptyResponse
    /\ tf_evaluated = <<>>
    /\ tf_pc = "returned"
    /\ cache = EmptyMap
    /\ tasks = [t \in TaskIds |-> IdleTask]
    /\ InitDatabase
    /\ handlers = [t \in TaskIds |-> IdleHandler]
    /\ requests = 0
    /\ reply = NoReply

NextScore ==
    \/ \E t \in TaskIds :
          /\ tasks[t].kind = "idle" /\ CallsMade < MaxCalls
          /\ \E e \in ClientEntries : CallScore(t, e[1], e[2])
    \/ \E t \in TaskIds :
          /\ tasks[t].kind = "idle"
          /\ \E d \in SeqsUpTo(ClientEntries, MaxCalls - CallsMade) : CallBatch(t, d)
    \/ \E t \in TaskIds :
          /\ tasks[t].pc = "attempt"
          /\ \E out \in Outcomes : Allowed(out) /\ UpstreamResponds(t, out)
    \/ \E t \in TaskIds : SleepEnds(t)

SpecScore == InitScore /\ [][NextScore]_vars

\* the answer to the pending attempt of caller t
AttemptReturns(t) == \E out \in Outcomes : Allowed(out) /\ UpstreamResponds(t, out)

\* every attempt ends, by a response, an error or the client's timeout
\* (timeout=30.0), and every asyncio.sleep ends: weak fairness of
\* AttemptReturns and of SleepEnds.  That of AttemptReturns is written out,
\* <<AttemptReturns(t)>>_vars being enabled exactly when an attempt of caller t
\* is pending
FairnessScore ==
    \A t \in TaskIds :
        /\ []<>(tasks[t].pc # "attempt") \/ []<><<AttemptReturns(t)>>_vars
        /\ WF_vars(SleepEnds(t))

LiveScore == SpecScore /\ FairnessScore

(***************************************************************************)
(* The engine called on its own: every project, pool and team size within  *)
(* the bounds, then one call                                               *)
(***************************************************************************)
ProjectSkillLists == SeqsUpTo([name : SkillNames, expertise_level : {MinLevel}], MaxReq)

\* the pools of n candidates whose skill lists hold k entries together:
\* position i holds a new candidate with id i or, as a request that repeats an
\* id produces, an earlier one again
RECURSIVE Pools(_, _)
Pools(n, k) ==
    IF n = 0 THEN IF k = 0 THEN {<<>>} ELSE {}
    ELSE UNION {{Append(p, MkCandidate(n, s, None)) : p \in Pools(n - 1, k - j),
                                                       s \in [1..j -> Skill]}
                : j \in 0..k}
         \cup {Append(p, p[i]) : p \in Pools(n - 1, k), i \in 1..(n - 1)}

AllPools == UNION {Pools(w[1], w[2]) : w \in {v \in (0..MaxPool) \X (0..MaxPool) :
                                                   v[1] + v[2] <= MaxPool}}

InitTeam ==
    /\ tf_project \in ProjectSkillLists
    /\ tf_candidates \in AllPools
    /\ tf_team_size \in -1..MaxTeamSize
    /\ tf_response = EmptyResponse
    /\ tf_evaluated = <<>>
    /\ tf_pc = "ready"
    /\ cache = EmptyMap
    /\ tasks = [t \in TaskIds |-> IdleTask]
    /\ InitDatabase
    /\ handlers = [t \in TaskIds |-> IdleHandler]
    /\ requests = 0
    /\ reply = NoReply

CallFormOptimalTeam ==
    /\ tf_pc = "ready"
    /\ tf_pc' = "returned"
    /\ tf_response' = FormOptimalTeam(tf_project, tf_candidates, tf_team_size)
    /\ tf_evaluated' = SubsetsEvaluated(tf_candidates, tf_team_size)
    /\ UNCHANGED <<tf_project, tf_candidates, tf_team_size, scVars, appVars>>

NextTeam == CallFormOptimalTeam

SpecTeam == InitTeam /\ [][NextTeam]_vars

\* special_score of a candidate handed to form_optimal_team: unset, or a score
\* the scoring client has returned
ScoreValues == {None, Some(Mean(<<60, 100>>))}

\* the pool with special_score scoring[i] for its i-th candidate
WithScores(pool, scoring) ==
    [i \in 1..Len(pool) |-> [pool[i] EXCEPT !.special_score = scoring[i]]]

MaxScoredPool == 4

\* the pools of AllPools up to MaxScoredPool, with every choice of scores
ScoredPools ==
    UNION {{WithScores(p, scoring) : p \in Pools(w[1], w[2]),
                                     scoring \in [1..w[1] -> ScoreValues]}
           : w \in {v \in (0..MaxScoredPool) \X (0..MaxScoredPool) :
                        v[1] + v[2] <= MaxScoredPool}}

\* form_optimal_team called as form_team calls it: the candidates with their
\* scores, team_size at least 1 (models.py line 57)
InitScored ==
    /\ tf_project \in ProjectSkillLists
    /\ tf_candidates \in ScoredPools
    /\ tf_team_size \in 1..MaxTeamSize
    /\ tf_response = EmptyResponse
    /\ tf_evaluated = <<>>
    /\ tf_pc = "ready"
    /\ cache = EmptyMap
    /\ tasks = [t \in TaskIds |-> IdleTask]
    /\ InitDatabase
    /\ handlers = [t \in TaskIds |-> IdleHandler]
    /\ requests = 0
    /\ reply = NoReply

SpecScored == InitScored /\ [][NextTeam]_vars

(***************************************************************************)
(* routes.py. A handler runs without interruption up to its await of the   *)
(* scoring client and, when the client returns, from there to its response.*)
(* The except Exception clauses that answer 500 are not reached: no        *)
(* operation of the store raises.                                          *)
(***************************************************************************)
Response(route, status_code, body) == [route |-> route, status |-> status_code, body |-> body]

\* raise HTTPException(status_code=status.HTTP_404_NOT_FOUND, ...)
NotFound(route) == Response(route, 404, <<>>)

Received ==
    /\ requests < MaxRequests
    /\ requests' = requests + 1

create_project_lowest_free(project) ==
    /\ Received
    /\ LET project_id == CHOOSE i \in 1..project_id_counter :
                             /\ i \notin DOMAIN db_projects
                             /\ \A j \in 1..(i - 1) : j \in DOMAIN db_projects
           new_project == NewProject(project_id, project)
       IN  /\ db_projects' = Put(db_projects, project_id, new_project)
           /\ project_id_counter' = project_id_counter + 1
           /\ reply' = Response("create_project", 201, Some(new_project))
    /\ UNCHANGED <<tfVars, scVars, db_candidates, objects, candidate_id_counter, handlers>>

\* POST /api/projects/
create_project(project) ==
    /\ Received
    /\ LET new_project == NewProject(project_id_counter, project)
       IN  /\ db_projects' = Put(db_projects, project_id_counter, new_project)
           /\ project_id_counter' = project_id_counter + 1
           /\ reply' = Response("create_project", 201, Some(new_project))
    /\ UNCHANGED <<tfVars, scVars, db_candidates, objects, candidate_id_counter, handlers>>

\* GET /api/projects/
get_projects ==
    /\ Received
    /\ reply' = Response("get_projects", 200, db_get_all_projects)
    /\ UNCHANGED <<tfVars, scVars, dbVars, handlers>>

\* GET /api/projects/{project_id}
get_project(project_id) ==
    /\ Received
    /\ LET project == db_get_project(project_id)
       IN  reply' = IF project = None THEN NotFound("get_project")
                    ELSE Response("get_project", 200, project)
    /\ UNCHANGED <<tfVars, scVars, dbVars, handlers>>

\* PUT /api/projects/{project_id}
update_project(project_id, project) ==
    /\ Received
    /\ IF project_id \notin DOMAIN db_projects
       THEN /\ reply' = NotFound("update_project")
            /\ UNCHANGED db_projects
       ELSE LET updated_project == NewProject(project_id, project)
            IN  /\ db_projects' = [db_projects EXCEPT ![project_id] = updated_project]
                /\ reply' = Response("update_project", 200, Some(updated_project))
    /\ UNCHANGED <<tfVars, scVars, db_candidates, objects, project_id_counter,
                   candidate_id_counter, handlers>>

\* DELETE /api/projects/{project_id}
delete_project(project_id) ==
    /\ Received
    /\ IF project_id \notin DOMAIN db_projects
       THEN /\ reply' = NotFound("delete_project")
            /\ UNCHANGED db_projects
       ELSE /\ db_projects' = Without(db_projects, project_id)
            /\ reply' = Response("delete_project", 204, <<>>)
    /\ UNCHANGED <<tfVars, scVars, db_candidates, objects, project_id_counter,
                   candidate_id_counter, handlers>>

\* POST /api/candidates/
create_candidate(candidate) ==
    /\ Received
    /\ LET new_candidate == NewCandidate(candidate_id_counter, candidate, None)
       IN  /\ objects' = Append(objects, new_candidate)
           /\ db_candidates' = Put(db_candidates, candidate_id_counter, Len(objects) + 1)
           /\ candidate_id_counter' = candidate_id_counter + 1
           /\ reply' = Response("create_candidate", 201, Some(new_candidate))
    /\ UNCHANGED <<tfVars, scVars, db_projects, project_id_counter, handlers>>

\* GET /api/candidates/
get_candidates ==
    /\ Received
    /\ reply' = Response("get_candidates", 200, db_get_all_candidates)
    /\ UNCHANGED <<tfVars, scVars, dbVars, handlers>>

update_candidate_upsert(candidate_id, candidate) ==
    /\ Received
    /\ LET updated_candidate ==
               NewCandidate(candidate_id, candidate,
                            IF candidate_id \in DOMAIN db_candidates
                            THEN objects[db_candidates[candidate_id]].special_score
                            ELSE None)
       IN  /\ objects' = Append(objects, updated_candidate)
           /\ db_candidates' = Put(db_candidates, candidate_id, Len(objects) + 1)
           /\ reply' = Response("update_candidate", 200, Some(updated_candidate))
    /\ UNCHANGED <<tfVars, scVars, db_projects, project_id_counter, candidate_id_counter,
                   handlers>>

\* PUT /api/candidates/{candidate_id}: the store gets a new object that
\* keeps the special_score of the old one
update_candidate(candidate_id, candidate) ==
    /\ Received
    /\ IF candidate_id \notin DOMAIN db_candidates
       THEN /\ reply' = NotFound("update_candidate")
            /\ UNCHANGED <<db_candidates, objects>>
       ELSE LET updated_candidate ==
                    NewCandidate(candidate_id, candidate,
                                 objects[db_candidates[candidate_id]].special_score)
            IN  /\ objects' = Append(objects, updated_candidate)
                /\ db_candidates' = [db_candidates EXCEPT ![candidate_id] = Len(objects) + 1]
                /\ reply' = Response("update_candidate", 200, Some(updated_candidate))
    /\ UNCHANGED <<tfVars, scVars, db_projects, project_id_counter, candidate_id_counter,
                   handlers>>

\* DELETE /api/candidates/{candidate_id}
delete_candidate(candidate_id) ==
    /\ Received
    /\ IF candidate_id \notin DOMAIN db_candidates
       THEN /\ reply' = NotFound("delete_candidate")
            /\ UNCHANGED db_candidates
       ELSE /\ db_candidates' = Without(db_candidates, candidate_id)
            /\ reply' = Response("delete_candidate", 204, <<>>)
    /\ UNCHANGED <<tfVars, scVars, db_projects, objects, project_id_counter,
                   candidate_id_counter, handlers>>

\* get_candidate, lines 158-166, once get_candidate_score has returned
GetCandidateResumes(h, task, objs) ==
    LET score == task.log[1].score
        ref == h.refs[1]
        objs1 == IF task.escaped \/ score = None THEN objs
                 ELSE [db_update_candidate_score(objs, h.candidate_id, score[1])
                          EXCEPT ![ref].special_score = score]
    IN  [objects |-> objs1, reply |-> Response("get_candidate", 200, Some(objs1[ref]))]

\* form_team, lines 255-258: the first of the handler's candidates with the id
RECURSIVE FirstWithId(_, _, _)
FirstWithId(objs, refs, candidate_id) ==
    IF refs = <<>> THEN 0
    ELSE IF objs[Head(refs)].id = candidate_id THEN Head(refs)
    ELSE FirstWithId(objs, Tail(refs), candidate_id)

\* form_team, lines 251-258: for candidate_id_str, score in scores.items()
RECURSIVE StoreScores(_, _, _, _)
StoreScores(objs, refs, scores, keys) ==
    IF keys = {} THEN objs
    ELSE LET candidate_id_str == CHOOSE k \in keys : TRUE
             candidate_id == ParseInt(candidate_id_str)
             score == scores[candidate_id_str]
             stored == db_update_candidate_score(objs, candidate_id, score)
             ref == FirstWithId(stored, refs, candidate_id)
             local == IF ref = 0 THEN stored
                      ELSE [stored EXCEPT ![ref].special_score = Some(score)]
         IN  StoreScores(local, refs, scores, keys \ {candidate_id_str})

\* form_team, lines 263-269
TeamResult(h, objs) ==
    Response("form_team", 200,
             Some(FormOptimalTeam(h.project[1].skills,
                                  [i \in 1..Len(h.refs) |-> objs[h.refs[i]]],
                                  h.team_size)))

FormTeamResumesStrict(h, task, objs) ==
    IF \E i \in 1..Len(task.log) : task.log[i].score = None
    THEN [objects |-> objs, reply |-> Response("form_team", 500, <<>>)]
    ELSE LET objs1 == StoreScores(objs, h.refs, task.results, DOMAIN task.results)
         IN  [objects |-> objs1, reply |-> TeamResult(h, objs1)]

\* form_team, lines 251-269, once get_candidate_scores_batch has returned
FormTeamResumes(h, task, objs) ==
    LET objs1 == IF task.escaped THEN objs
                 ELSE StoreScores(objs, h.refs, task.results, DOMAIN task.results)
    IN  [objects |-> objs1, reply |-> TeamResult(h, objs1)]

Resumes(h, task, objs) ==
    IF h.route = "get_candidate" THEN GetCandidateResumes(h, task, objs)
    ELSE FormTeamResumes(h, task, objs)

SettleClientWrites(t, h, task, c) ==
    /\ cache' = c
    /\ IF task.pc = "done"
       THEN LET r == Resumes(h, task, objects)
            IN  /\ objects' = r.objects
                /\ reply' = r.reply
                /\ tasks' = [tasks EXCEPT ![t] = IdleTask]
                /\ handlers' = [handlers EXCEPT ![t] = IdleHandler]
       ELSE /\ tasks' = [tasks EXCEPT ![t] = task]
            /\ handlers' = [handlers EXCEPT ![t] = h]
            /\ objects' = [i \in 1..Len(objects) |->
                              IF \E j \in 1..Len(h.refs) : h.refs[j] = i
                              THEN [objects[i] EXCEPT !.special_score = Some(task.attempt)]
                              ELSE objects[i]]
            /\ UNCHANGED reply

\* handler h in slot t, whose call of the scoring client stands at task: the
\* handler goes on to its response when the call has returned and stays
\* suspended when it has not
Settle(t, h, task, c) ==
    /\ cache' = c
    /\ IF task.pc = "done"
       THEN LET r == Resumes(h, task, objects)
            IN  /\ objects' = r.objects
                /\ reply' = r.reply
                /\ tasks' = [tasks EXCEPT ![t] = IdleTask]
                /\ handlers' = [handlers EXCEPT ![t] = IdleHandler]
       ELSE /\ tasks' = [tasks EXCEPT ![t] = task]
            /\ handlers' = [handlers EXCEPT ![t] = h]
            /\ UNCHANGED <<objects, reply>>

\* the first free slot
FreeSlot(t) ==
    /\ tasks[t].kind = "idle"
    /\ \A u \in 1..(t - 1) : tasks[u].kind # "idle"

\* GET /api/candidates/{candidate_id}, taken by slot t
get_candidate(t, candidate_id) ==
    /\ Received
    /\ FreeSlot(t)
    /\ LET candidate == db_get_candidate(candidate_id)
       IN  IF candidate = None
           THEN /\ reply' = NotFound("get_candidate")
                /\ UNCHANGED <<scVars, objects, handlers>>
           ELSE IF objects[candidate[1]].special_score # None
           THEN /\ reply' = Response("get_candidate", 200, Some(objects[candidate[1]]))
                /\ UNCHANGED <<scVars, objects, handlers>>
           ELSE LET skills_data == SkillsData(objects[candidate[1]].skills)
                    h == [IdleHandler EXCEPT !.route = "get_candidate",
                                             !.candidate_id = candidate_id,
                                             !.refs = candidate]
                    call == [IdleTask EXCEPT
                                !.kind = "score",
                                !.entries = << <<Str(candidate_id), skills_data>> >>]
                IN  Settle(t, h, Advance(call, cache), cache)
    /\ UNCHANGED <<tfVars, db_projects, db_candidates, project_id_counter, candidate_id_counter>>

RECURSIVE CandidatesToUpdateAll(_)
CandidatesToUpdateAll(refs) ==
    IF refs = <<>> THEN <<>>
    ELSE LET candidate == objects[Head(refs)]
         IN  << <<Str(candidate.id), SkillsData(candidate.skills)>> >>
             \o CandidatesToUpdateAll(Tail(refs))

\* form_team, lines 242-246
RECURSIVE CandidatesToUpdate(_)
CandidatesToUpdate(refs) ==
    IF refs = <<>> THEN <<>>
    ELSE LET candidate == objects[Head(refs)]
             rest == CandidatesToUpdate(Tail(refs))
         IN  IF candidate.special_score = None
             THEN << <<Str(candidate.id), SkillsData(candidate.skills)>> >> \o rest
             ELSE rest

\* POST /api/form-team/, taken by slot t
form_team(t, request) ==
    /\ Received
    /\ FreeSlot(t)
    /\ LET project == db_get_project(request.project_id)
           found == db_get_candidates_by_ids(request.candidate_ids)
           h == [IdleHandler EXCEPT !.route = "form_team", !.refs = found,
                                    !.project = project,
                                    !.candidate_ids = request.candidate_ids,
                                    !.team_size = request.team_size]
           candidates_to_update == CandidatesToUpdate(found)
       IN  IF project = None \/ found = <<>>
           THEN /\ reply' = NotFound("form_team")
                /\ UNCHANGED <<scVars, objects, handlers>>
           ELSE IF candidates_to_update = <<>>
           THEN /\ reply' = TeamResult(h, objects)
                /\ UNCHANGED <<scVars, objects, handlers>>
           ELSE LET call == [IdleTask EXCEPT !.kind = "batch",
                                             !.entries = candidates_to_update]
                IN  Settle(t, h, Advance(call, cache), cache)
    /\ UNCHANGED <<tfVars, db_projects, db_candidates, project_id_counter, candidate_id_counter>>

\* the upstream answers the pending attempt of the handler in slot t
ScoreArrives(t, out) ==
    /\ tasks[t].pc = "attempt"
    /\ LET after == AfterAttempt(tasks[t], cache, out)
       IN  Settle(t, handlers[t], after.task, after.cache)
    /\ UNCHANGED <<tfVars, db_projects, db_candidates, project_id_counter, candidate_id_counter,
                   requests>>

\* the sleep of the handler in slot t is over
BackoffEnds(t) ==
    /\ tasks[t].pc = "sleep"
    /\ Settle(t, handlers[t], NextIteration(tasks[t], cache), cache)
    /\ UNCHANGED <<tfVars, db_projects, db_candidates, project_id_counter, candidate_id_counter,
                   requests>>

(***************************************************************************)
(* The application: requests of every route, taken concurrently            *)
(***************************************************************************)
ProjectCreates ==
    [title : {"proj"},
     skills : {<<[name |-> "py", expertise_level |-> MinLevel]>>,
               <<[name |-> "py", expertise_level |-> MinLevel],
                 [name |-> "js", expertise_level |-> MinLevel]>>}]

CandidateCreates ==
    [name : {"ann"},
     skills : {<<[name |-> "py", expertise_level |-> MinLevel]>>,
               <<[name |-> "js", expertise_level |-> MaxLevel]>>}]

\* the ids of a path or a request body: those issued so far and the next one
ProjectIds == 1..project_id_counter
CandidateIds == 1..candidate_id_counter

TeamFormationRequests ==
    [project_id : ProjectIds,
     candidate_ids : SeqsUpTo(CandidateIds, 2) \ {<<>>},
     team_size : 1..2]

Init ==
    /\ tf_project = <<>>
    /\ tf_candidates = <<>>
    /\ tf_team_size = 0
    /\ tf_response = EmptyResponse
    /\ tf_evaluated = <<>>
    /\ tf_pc = "returned"
    /\ cache = EmptyMap
    /\ tasks = [t \in TaskIds |-> IdleTask]
    /\ InitDatabase
    /\ handlers = [t \in TaskIds |-> IdleHandler]
    /\ requests = 0
    /\ reply = NoReply

Next ==
    \/ \E project \in ProjectCreates : create_project(project)
    \/ get_projects
    \/ \E project_id \in ProjectIds : get_project(project_id)
    \/ \E project_id \in ProjectIds, project \in ProjectCreates :
          update_project(project_id, project)
    \/ \E project_id \in ProjectIds : delete_project(project_id)
    \/ \E candidate \in CandidateCreates : create_candidate(candidate)
    \/ get_candidates
    \/ \E t \in TaskIds, candidate_id \in CandidateIds : get_candidate(t, candidate_id)
    \/ \E candidate_id \in CandidateIds, candidate \in CandidateCreates :
          update_candidate(candidate_id, candidate)
    \/ \E candidate_id \in CandidateIds : delete_candidate(candidate_id)
    \/ \E t \in TaskIds, request \in TeamFormationRequests : form_team(t, request)
    \/ \E t \in TaskIds, out \in Outcomes : Allowed(out) /\ ScoreArrives(t, out)
    \/ \E t \in TaskIds : BackoffEnds(t)

Spec == Init /\ [][Next]_vars

\* the stores a form-team request can find: one project and one or two
\* candidates, each with its score unset or set by an earlier
\* GET /api/candidates/{id}, which has left the score in the cache under the
\* candidate's key
StoredCandidates ==
    SeqsUpTo([create : CandidateCreates, score : {None, Some(Mean(<<70>>))}], 2) \ {<<>>}

CacheOf(objs) ==
    LET scored == {i \in 1..Len(objs) : objs[i].special_score # None}
        key(i) == CacheKey(Str(objs[i].id), SkillsData(objs[i].skills))
    IN  [k \in {key(i) : i \in scored} |->
            objs[CHOOSE i \in scored : key(i) = k].special_score[1]]

\* the state after POST /api/projects/, a POST /api/candidates/ for each
\* candidate, a GET /api/candidates/{id} for each candidate with a score and
\* GET /api/candidates/; one more request of the budget can arrive
InitForm ==
    /\ tf_project = <<>>
    /\ tf_candidates = <<>>
    /\ tf_team_size = 0
    /\ tf_response = EmptyResponse
    /\ tf_evaluated = <<>>
    /\ tf_pc = "returned"
    /\ tasks = [t \in TaskIds |-> IdleTask]
    /\ handlers = [t \in TaskIds |-> IdleHandler]
    /\ \E project \in ProjectCreates, stored \in StoredCandidates :
          /\ db_projects = Put(EmptyMap, 1, NewProject(1, project))
          /\ project_id_counter = 2
          /\ objects = [i \in 1..Len(stored) |->
                           NewCandidate(i, stored[i].create, stored[i].score)]
          /\ db_candidates = [i \in 1..Len(stored) |-> i]
          /\ candidate_id_counter = Len(stored) + 1
    /\ cache = CacheOf(objects)
    /\ reply = Response("get_candidates", 200, db_get_all_candidates)
    /\ requests = MaxRequests - 1

SpecForm == InitForm /\ [][Next]_vars

\* POST /api/form-team/ for a stored project with up to MaxIds candidate ids,
\* among them ids the store does not hold and ids given more than once
LongTeamFormationRequests ==
    [project_id : DOMAIN db_projects,
     candidate_ids : SeqsUpTo(CandidateIds, MaxIds) \ {<<>>},
     team_size : 1..2]

NextIds ==
    \/ \E t \in TaskIds, request \in LongTeamFormationRequests : form_team(t, request)
    \/ \E t \in TaskIds, out \in Outcomes : Allowed(out) /\ ScoreArrives(t, out)
    \/ \E t \in TaskIds : BackoffEnds(t)

SpecIds == InitForm /\ [][NextIds]_vars

\* the answer to the pending attempt of slot t
AttemptEnds(t) == \E out \in Outcomes : Allowed(out) /\ ScoreArrives(t, out)

\* every attempt ends, by an answer or by the client's timeout (timeout=30.0),
\* and every sleep ends: weak fairness of AttemptEnds and of BackoffEnds.  That
\* of AttemptEnds is written out, <<AttemptEnds(t)>>_vars being enabled exactly
\* when an attempt of slot t is pending
Fairness ==
    \A t \in TaskIds :
        /\ []<>(tasks[t].pc # "attempt") \/ []<><<AttemptEnds(t)>>_vars
        /\ WF_vars(BackoffEnds(t))

LiveSpec == Spec /\ Fairness

(***************************************************************************)
(* C1: for a non-empty pool and team_size >= 1 the response's              *)
(* (coverage, total_expertise) is the lexicographic maximum over all       *)
(* subsets of exactly min(team_size, |candidates|) candidates              *)
(***************************************************************************)
SubsetsOfSize(n, k) == {S \in SUBSET (1..n) : Cardinality(S) = k}

C1_Called ==
    /\ tf_pc = "returned"
    /\ tf_candidates # <<>>
    /\ tf_team_size >= 1

C1_LexMax ==
    C1_Called =>
        \A S \in SubsetsOfSize(Len(tf_candidates),
                               Min(tf_team_size, Len(tf_candidates))) :
            LET r == EvaluateTeam(SubTeam(tf_candidates, SetToSeq(S)),
                                  RequiredSkills(tf_project))
            IN  /\ ~ CovGT(r.coverage, tf_response.coverage)
                /\ CovEQ(r.coverage, tf_response.coverage)
                      => r.total_expertise <= tf_response.total_expertise

\* a call where a later subset wins on total_expertise at equal, non-zero coverage
C1_Witness ==
    /\ C1_Called
    /\ Len(tf_candidates) = 3 /\ tf_team_size = 2
    /\ tf_response.coverage = <<1, 2>>
    /\ LET first == EvaluateTeam(SubTeam(tf_candidates, <<1, 2>>),
                                 RequiredSkills(tf_project))
       IN  /\ CovEQ(first.coverage, tf_response.coverage)
           /\ first.total_expertise < tf_response.total_expertise
(***************************************************************************)
(* The calls of the log                                                    *)
(***************************************************************************)
Calls == {<<t, i>> \in TaskIds \X (1..MaxCalls) : i <= Len(tasks[t].log)}
LogOf(call) == tasks[call[1]].log[call[2]]
KeyOf(call) == EntryKey(tasks[call[1]].entries[call[2]])
FailedEntry(e) == e.fin /\ ~ e.hit /\ e.score = None
AllFailed(call) == FailedEntry(LogOf(call))

(***************************************************************************)
(* C2: a call whose every attempt failed has made exactly max_retries (5)  *)
(* upstream calls, returns None and has slept max_retries - 1 times, for   *)
(* 1, 2, 4 and 8 seconds in that order, with no sleep after the last       *)
(* attempt                                                                 *)
(***************************************************************************)
C2_RetryBound ==
    \A call \in Calls :
        AllFailed(call) =>
            /\ LogOf(call).upstream = MaxRetries
            /\ Len(LogOf(call).sleeps) = MaxRetries - 1
            /\ LogOf(call).sleeps = <<1, 2, 4, 8>>

C2_Witness == \E call \in Calls : AllFailed(call)

(***************************************************************************)
(* C3 as stated: two calls with the same (candidate_id, skills), one after *)
(* the other, make at most one upstream call in total and the second is    *)
(* served from the cache                                                   *)
(***************************************************************************)
\* call j of caller t is made after its call i, with the same arguments, has
\* returned
After(t, i, j) ==
    /\ i < j /\ j <= Len(tasks[t].log)
    /\ tasks[t].entries[i] = tasks[t].entries[j]
    /\ tasks[t].log[i].fin

SamePair(t, i, j) == After(t, i, j) /\ tasks[t].log[j].fin

FailsIn(t) ==
    /\ tasks[t].pc = "attempt"
    /\ tasks'[t] # tasks[t]
    /\ tasks'[t].log[tasks[t].idx].score = None
\* ... and with it the call returns
ExhaustsIn(t) == FailsIn(t) /\ tasks'[t].log[tasks[t].idx].fin
\* the caller's next call is one with the same arguments
FollowUp(t, i) ==
    /\ i < Len(tasks[t].entries)
    /\ tasks[t].entries[i + 1] = tasks[t].entries[i]

C4_NothingCached ==
    [][\A t \in TaskIds :
          ExhaustsIn(t) =>
              /\ FailedEntry(tasks'[t].log[tasks[t].idx])
              /\ EntryKey(tasks[t].entries[tasks[t].idx]) \notin DOMAIN cache'
              /\ FollowUp(t, tasks[t].idx) => ~ tasks'[t].log[tasks[t].idx + 1].hit]_vars

(***************************************************************************)
(* C4 amended: no failed attempt writes the cache, so a call whose         *)
(* attempts all failed returns None and has stored nothing; its key has an *)
(* entry at that moment only if a concurrent call with the same key        *)
(* obtained a score meanwhile, and when the key has none, a subsequent     *)
(* call with the same key calls the upstream again                         *)
(***************************************************************************)
StoredByOther(t, key) ==
    \E call \in Calls :
        /\ call[1] # t
        /\ KeyOf(call) = key
        /\ LogOf(call).fin /\ ~ LogOf(call).hit /\ LogOf(call).score # None

C4_FailedCallStoresNothing ==
    [][\A t \in TaskIds :
          FailsIn(t) =>
              /\ cache' = cache
              /\ ExhaustsIn(t) =>
                    LET i == tasks[t].idx
                        key == EntryKey(tasks[t].entries[i])
                    IN  /\ FailedEntry(tasks'[t].log[i])
                        /\ tasks'[t].log[i].upstream = MaxRetries
                        /\ key \in DOMAIN cache => StoredByOther(t, key)
                        /\ (FollowUp(t, i) /\ key \notin DOMAIN cache)
                              => /\ ~ tasks'[t].log[i + 1].hit
                                 /\ tasks'[t].log[i + 1].upstream = 1
                                 /\ tasks'[t].pc = "attempt"]_vars

\* a call returned None after its five attempts and the same call, made again,
\* is at its first attempt
C4_Witness ==
    \E t \in TaskIds :
        /\ Len(tasks[t].log) = 2
        /\ tasks[t].entries[1] = tasks[t].entries[2]
        /\ AllFailed(<<t, 1>>)
        /\ tasks[t].pc = "attempt" /\ tasks[t].attempt = 0
        /\ ~ tasks[t].log[2].hit

(***************************************************************************)
(* C5: a call whose key is in the cache returns the cached value at once,  *)
(* with no upstream call, no sleep and no change of the cache              *)
(***************************************************************************)
C5_HitIsFree ==
    [][\A t \in TaskIds :
          (/\ tasks[t].kind = "idle"
           /\ tasks'[t].kind # "idle"
           /\ tasks'[t].entries # <<>>
           /\ EntryKey(tasks'[t].entries[1]) \in DOMAIN cache)
          => /\ tasks'[t].log[1].fin
             /\ tasks'[t].log[1].score = Some(cache[EntryKey(tasks'[t].entries[1])])
             /\ tasks'[t].log[1].upstream = 0
             /\ tasks'[t].log[1].sleeps = <<>>
             /\ cache' = cache
                      /\ tasks'[t].kind = "score" => tasks'[t].pc = "done"]_vars

C5_Witness ==
    \E t \in TaskIds :
        /\ tasks[t].kind = "score" /\ tasks[t].pc = "done"
        /\ tasks[t].log[1].hit
        /\ tasks[t].log[1].score = Some(80)

(***************************************************************************)
(* C6 as stated: the fetches of a batch run concurrently, so while the     *)
(* fetch of one entry sits in its backoff sleep the fetches of all the     *)
(* other entries have been started                                         *)
(***************************************************************************)
C6_FetchesRunConcurrently ==
    \A t \in TaskIds :
        (tasks[t].kind = "batch" /\ tasks[t].pc = "sleep")
            => Len(tasks[t].log) = Len(tasks[t].entries)

(***************************************************************************)
(* C7: the mapping a batch returns has a key for a candidate id exactly    *)
(* when a fetch of the batch for that id returned a score, and the value   *)
(* is the score of (the last) such fetch                                   *)
(***************************************************************************)
Scored(t, id) ==
    {i \in 1..Len(tasks[t].entries) : tasks[t].entries[i][1] = id /\ tasks[t].log[i].score # None}
Last(S) == CHOOSE i \in S : \A j \in S : j <= i

BatchReturned(t) == tasks[t].kind = "batch" /\ tasks[t].pc = "done" /\ ~ tasks[t].escaped

C7_BatchMapping ==
    \A t \in TaskIds :
        BatchReturned(t) =>
            \A id \in ClientIds \cup DOMAIN tasks[t].results :
                /\ id \in DOMAIN tasks[t].results <=> Scored(t, id) # {}
                /\ Scored(t, id) # {} =>
                      Some(tasks[t].results[id]) = tasks[t].log[Last(Scored(t, id))].score

C7_Witness ==
    \E t \in TaskIds :
        /\ BatchReturned(t)
        /\ Len(tasks[t].entries) = 2
        /\ tasks[t].log[1].score = None
        /\ tasks[t].log[2].score # None
        /\ DOMAIN tasks[t].results = {tasks[t].entries[2][1]}

(***************************************************************************)
(* C8: a transport error, a timeout, a non-success status and              *)
(* success=false each count as one failed attempt: whichever of them       *)
(* answers a pending attempt, the call goes on to its backoff sleep and    *)
(* the next attempt (or, after the last attempt, returns None), and no     *)
(* caller ever sees an exception                                           *)
(***************************************************************************)
FailureResponses == [kind : FailureKinds, special_scores : {<<>>}]

C8_FailuresAreRetried ==
    \A t \in TaskIds :
        /\ ~ tasks[t].escaped
        /\ tasks[t].pc = "attempt" =>
              \A r \in FailureResponses :
                  LET after == AfterResponse(tasks[t], cache, r).task
                      i == tasks[t].idx
                  IN  /\ ~ after.escaped
                      /\ after.log[i].score = None
                      /\ after.log[i].upstream = tasks[t].attempt + 1
                      /\ IF tasks[t].attempt < MaxRetries - 1
                         THEN /\ after.pc = "sleep"
                              /\ after.idx = i /\ ~ after.log[i].fin
                              /\ NextIteration(after, cache).pc = "attempt"
                              /\ NextIteration(after, cache).attempt = tasks[t].attempt + 1
                              /\ NextIteration(after, cache).log[i].upstream
                                    = tasks[t].attempt + 2
                         ELSE after.log[i].fin

\* a caller of the batch in its second backoff sleep
C8_Witness ==
    \E t \in TaskIds :
        /\ tasks[t].kind = "batch"
        /\ tasks[t].pc = "sleep"
        /\ tasks[t].log[tasks[t].idx].upstream = 2
        /\ tasks[t].log[tasks[t].idx].sleeps = <<1, 2>>

(***************************************************************************)
(* C9 as stated: once a key has a value in the cache, the value is never   *)
(* overwritten with a different one and never removed                      *)
(***************************************************************************)
C9_AppendOnly ==
    [][\A k \in DOMAIN cache : k \in DOMAIN cache' /\ cache'[k] = cache[k]]_vars

(***************************************************************************)
(* C9 amended: a key of the cache is never removed; its value is replaced  *)
(* only by a call for that key that had missed the cache before the value  *)
(* was stored and was waiting for the upstream since                       *)
(***************************************************************************)
C9_KeysStay ==
    [][\A k \in DOMAIN cache :
          /\ k \in DOMAIN cache'
          /\ cache'[k] # cache[k] =>
                \E t \in TaskIds :
                    /\ tasks[t].pc = "attempt"
                    /\ KeyOf(<<t, tasks[t].idx>>) = k
                    /\ ~ tasks[t].log[tasks[t].idx].hit
                    /\ tasks'[t].log[tasks[t].idx].score = Some(cache'[k])]_vars

C9_Witness ==
    \E c1, c2 \in Calls :
        /\ c1 # c2 /\ KeyOf(c1) = KeyOf(c2)
        /\ LogOf(c1).score = Some(70) /\ LogOf(c2).score = Some(80)
        /\ ~ LogOf(c1).hit /\ ~ LogOf(c2).hit
        /\ cache[KeyOf(c1)] = 80

(***************************************************************************)
(* C10 as stated: a candidate's score starts unset and is populated at     *)
(* most once: once it is set, no request (get candidate, update candidate, *)
(* form-team) and no operation of the store changes or clears it while the *)
(* candidate exists                                                        *)
(***************************************************************************)
StoredScore(id) == objects[db_candidates[id]].special_score

C10_ScoreSetOnce ==
    [][/\ \A id \in DOMAIN db_candidates' \ DOMAIN db_candidates :
             StoredScore(id)' = None
       /\ \A id \in DOMAIN db_candidates \cap DOMAIN db_candidates' :
             StoredScore(id) # None => StoredScore(id)' = StoredScore(id)]_vars

(***************************************************************************)
(* C11 as stated: for every project and every result of form_optimal_team, *)
(* 0 <= coverage <= 1, and coverage = 1 if and only if every required      *)
(* skill name of the project is held by at least one member of the         *)
(* returned team                                                           *)
(***************************************************************************)
Returned11 == tf_pc = "returned"

\* the TeamMember is a candidate of the pool that lists the skill name
MemberHolds(member, skill) ==
    \E i \in 1..Len(tf_candidates) :
        /\ tf_candidates[i].id = member.candidate_id
        /\ \E j \in 1..Len(tf_candidates[i].skills) : tf_candidates[i].skills[j].name = skill

AllRequiredHeld ==
    \A skill \in RequiredSkills(tf_project) :
        \E m \in 1..Len(tf_response.team) : MemberHolds(tf_response.team[m], skill)

CoverageInRange ==
    /\ tf_response.coverage[2] > 0
    /\ 0 <= tf_response.coverage[1]
    /\ tf_response.coverage[1] <= tf_response.coverage[2]

FullCoverage == CovEQ(tf_response.coverage, <<1, 1>>)

C11_FullIffAllHeld ==
    Returned11 => (CoverageInRange /\ (FullCoverage <=> AllRequiredHeld))

(***************************************************************************)
(* C11 amended: 0 <= coverage <= 1; for a project with at least one        *)
(* required skill name, coverage = 1 if and only if every required skill   *)
(* name is held by at least one member of the returned team; for a project *)
(* with no required skill the coverage is 0                                *)
(***************************************************************************)
C11_CoverageOfResult ==
    Returned11 =>
        /\ CoverageInRange
        /\ IF RequiredSkills(tf_project) = {}
           THEN CovEQ(tf_response.coverage, ZeroCov)
           ELSE FullCoverage <=> AllRequiredHeld

\* a result that covers both required skills with two members
C11_Witness ==
    /\ Returned11
    /\ Cardinality(RequiredSkills(tf_project)) = 2
    /\ FullCoverage
    /\ Len(tf_response.team) = 2

(***************************************************************************)
(* C12: total_expertise of the result is the sum, over the required skill  *)
(* names covered by the chosen subset, of the maximum expertise_level      *)
(* among the subset's candidates holding that skill; each required skill   *)
(* name contributes exactly once even if several members, or several       *)
(* entries of one member, hold it                                          *)
(***************************************************************************)
\* the expertise levels the candidates of team list under the skill name
LevelsHeld(team, skill) ==
    {team[i].skills[j].expertise_level :
        <<i, j>> \in {p \in (1..Len(team)) \X (1..MaxPool) :
                         /\ p[2] <= Len(team[p[1]].skills)
                         /\ team[p[1]].skills[p[2]].name = skill}}

MaxOf(S) == CHOOSE x \in S : \A y \in S : y <= x

RECURSIVE SumOfMaxima(_, _)
SumOfMaxima(team, names) ==
    IF names = {} THEN 0
    ELSE LET skill == CHOOSE n \in names : TRUE
             held == LevelsHeld(team, skill)
         IN  (IF held = {} THEN 0 ELSE MaxOf(held)) + SumOfMaxima(team, names \ {skill})

\* the subsets of the effective size, as candidate lists
SubsetsSearched ==
    {SubTeam(tf_candidates, SetToSeq(S)) :
        S \in SubsetsOfSize(Len(tf_candidates), Min(tf_team_size, Len(tf_candidates)))}

C12_TotalIsSumOfMaxima ==
    C1_Called =>
        LET required == RequiredSkills(tf_project)
        IN  /\ \A team \in SubsetsSearched :
                  EvaluateTeam(team, required).total_expertise = SumOfMaxima(team, required)
            /\ \E team \in SubsetsSearched :
                  /\ EvaluateTeam(team, required).team = tf_response.team
                  /\ CovEQ(EvaluateTeam(team, required).coverage, tf_response.coverage)
                  /\ tf_response.total_expertise = SumOfMaxima(team, required)

\* the one member lists the required skill twice, the greater level first, and
\* another candidate of the subset holds it as well
C12_Witness ==
    /\ C1_Called
    /\ Len(tf_candidates) = 2 /\ tf_team_size = 2
    /\ RequiredSkills(tf_project) = {"py"}
    /\ Len(tf_candidates[1].skills) = 2
    /\ tf_candidates[1].skills[1] = [name |-> "py", expertise_level |-> MaxLevel]
    /\ tf_candidates[1].skills[2] = [name |-> "py", expertise_level |-> MinLevel]
    /\ tf_candidates[2].skills = <<[name |-> "py", expertise_level |-> MinLevel]>>
    /\ tf_response.total_expertise = MaxLevel

(***************************************************************************)
(* C13: form_optimal_team with an empty candidate list or with             *)
(* team_size <= 0 returns the empty result (team = [], total_expertise =   *)
(* 0, coverage = 0.0) for every project, without evaluating any subset     *)
(***************************************************************************)
C13_DegenerateIsEmpty ==
    (tf_pc = "returned" /\ (tf_candidates = <<>> \/ tf_team_size <= 0)) =>
        /\ tf_response.team = <<>>
        /\ tf_response.total_expertise = 0
        /\ tf_response.coverage = ZeroCov
        /\ tf_evaluated = <<>>

\* team_size 0 with a pool that covers the project
C13_Witness ==
    /\ tf_pc = "returned"
    /\ tf_team_size = 0
    /\ Len(tf_candidates) = 2
    /\ Len(tf_project) = 1
    /\ \E i \in 1..2 : tf_candidates[i].skills = <<[name |-> tf_project[1].name,
                                                    expertise_level |-> MaxLevel]>>
    /\ tf_response = EmptyResponse

(***************************************************************************)
(* C14: when team_size >= |candidates| and the pool is not empty,          *)
(* form_optimal_team evaluates exactly one subset, the whole pool in input *)
(* order, and its result equals the evaluation of that whole pool          *)
(***************************************************************************)
C14_Clamped ==
    /\ tf_pc = "returned"
    /\ tf_candidates # <<>>
    /\ tf_team_size >= Len(tf_candidates)

C14_WholePoolOnly ==
    C14_Clamped =>
        LET whole == EvaluateTeam(tf_candidates, RequiredSkills(tf_project))
        IN  /\ tf_evaluated = <<tf_candidates>>
            /\ tf_response.team = whole.team
            /\ tf_response.total_expertise = whole.total_expertise
            /\ tf_response.coverage = whole.coverage

\* a team_size beyond a pool of two that covers something
C14_Witness ==
    /\ C14_Clamped
    /\ Len(tf_candidates) = 2
    /\ tf_team_size = 3
    /\ Len(tf_response.team) = 2

(***************************************************************************)
(* C15: in every result of form_optimal_team, also when the pool lists the *)
(* same candidate more than once, each candidate id appears in at most one *)
(* TeamMember, every TeamMember has a non-empty assigned_skills, and each  *)
(* covered required skill name appears in the assigned_skills of exactly   *)
(* one member, exactly once                                                *)
(***************************************************************************)
\* the (member, position) pairs of the result where the skill name is assigned
Assigned(skill) ==
    {p \in (1..Len(tf_response.team)) \X (1..MaxReq) :
        /\ p[2] <= Len(tf_response.team[p[1]].assigned_skills)
        /\ tf_response.team[p[1]].assigned_skills[p[2]] = skill}

RECURSIVE CountAssigned(_)
CountAssigned(team) ==
    IF team = <<>> THEN 0 ELSE Len(Head(team).assigned_skills) + CountAssigned(Tail(team))

C15_MembersWellFormed ==
    tf_pc = "returned" =>
        /\ \A m, n \in 1..Len(tf_response.team) :
              m # n => tf_response.team[m].candidate_id # tf_response.team[n].candidate_id
        /\ \A m \in 1..Len(tf_response.team) :
              /\ tf_response.team[m].assigned_skills # <<>>
              /\ Len(tf_response.team[m].assigned_skills) <= MaxReq
              /\ \A j \in 1..Len(tf_response.team[m].assigned_skills) :
                    tf_response.team[m].assigned_skills[j] \in RequiredSkills(tf_project)
        /\ \A skill \in RequiredSkills(tf_project) : Cardinality(Assigned(skill)) <= 1
        \* the names assigned are as many as the names covered
        /\ CountAssigned(tf_response.team) = tf_response.coverage[1]

\* the pool lists one candidate twice, and the candidate gets both skills
C15_Witness ==
    /\ tf_pc = "returned"
    /\ Len(tf_candidates) = 2 /\ tf_team_size = 2
    /\ tf_candidates[1] = tf_candidates[2]
    /\ Len(tf_response.team) = 1
    /\ Len(tf_response.team[1].assigned_skills) = 2

(***************************************************************************)
(* C16: a form-team request whose project id is not in the store, or none  *)
(* of whose candidate ids is in the store, is answered with not-found      *)
(* (404); neither the scoring client nor the formation engine is invoked   *)
(* and the store is unchanged                                              *)
(***************************************************************************)
NothingFound(request) ==
    \/ request.project_id \notin DOMAIN db_projects
    \/ \A i \in 1..Len(request.candidate_ids) :
          request.candidate_ids[i] \notin DOMAIN db_candidates

C16_NotFound ==
    [][\A t \in TaskIds : \A request \in TeamFormationRequests :
          (NothingFound(request) /\ form_team(t, request)) =>
              /\ reply' = NotFound("form_team")
              /\ UNCHANGED <<dbVars, scVars, handlers, tfVars>>]_vars

\* a form-team request answered 404 with a project and no candidate stored
C16_Witness ==
    /\ reply = NotFound("form_team")
    /\ DOMAIN db_projects = {1}
    /\ DOMAIN db_candidates = {}

(***************************************************************************)
(* The form-team requests that are answered in a step                      *)
(***************************************************************************)
\* the handler's candidates as the engine gets them, on the heap objs
Resolved(h, objs) == [i \in 1..Len(h.refs) |-> objs[h.refs[i]]]

\* the handler of slot t is answered in this step, by the attempt that comes
\* out as out
AnsweredBy(t, out) ==
    /\ handlers[t].route = "form_team"
    /\ ScoreArrives(t, out)
    /\ handlers'[t].route = "none"

\* the fetches of the batch of slot t, once the pending attempt came out as out
BatchAfter(t, out) == AfterAttempt(tasks[t], cache, out).task

\* no fetch of the batch returned a score for the candidate id
NoScoreFor(task, candidate_id) ==
    \A i \in 1..Len(task.entries) :
        task.entries[i][1] = Str(candidate_id) => task.log[i].score = None

\* a fetch of the batch for the candidate id failed
SomeFetchFailed(task, candidate_id) ==
    \E i \in 1..Len(task.entries) :
        task.entries[i][1] = Str(candidate_id) /\ task.log[i].score = None

(***************************************************************************)
(* C17 as stated: a form-team request for an existing project and at least *)
(* one existing candidate always completes with a team result, whatever    *)
(* subset of the score fetches fail; each candidate whose fetch failed     *)
(* keeps its score unset, and the returned team is what the engine returns *)
(* for the resolved candidates                                             *)
(***************************************************************************)
C17_FailedStaysUnset ==
    [][\A t \in TaskIds : \A out \in Outcomes :
          AnsweredBy(t, out) =>
              /\ reply'.status = 200
              /\ \A i \in 1..Len(handlers[t].refs) : \A id \in DOMAIN db_candidates :
                    (id = objects[handlers[t].refs[i]].id /\ SomeFetchFailed(BatchAfter(t, out), id))
                        => StoredScore(id)' = None]_vars

(***************************************************************************)
(* C17 amended: such a request always completes with a team result,        *)
(* whatever subset of its score fetches fail; the request leaves the score *)
(* of a candidate as it is when none of its fetches for the candidate      *)
(* returned a score, and the returned team is what the engine returns for  *)
(* the resolved candidates                                                 *)
(***************************************************************************)
C17_Answer(t, out) ==
    LET h == handlers[t]
        task == BatchAfter(t, out)
    IN  /\ reply' = Response("form_team", 200,
                             Some(FormOptimalTeam(h.project[1].skills, Resolved(h, objects),
                                                  h.team_size)))
        /\ \A i \in 1..Len(h.refs) :
              NoScoreFor(task, objects[h.refs[i]].id) =>
                  /\ objects'[h.refs[i]].special_score = objects[h.refs[i]].special_score
                  /\ \A id \in DOMAIN db_candidates :
                        id = objects[h.refs[i]].id => StoredScore(id)' = StoredScore(id)

C17_DegradesGracefully ==
    /\ [][\A t \in TaskIds : \A out \in Outcomes :
             AnsweredBy(t, out) => C17_Answer(t, out)]_vars
    /\ \A t \in TaskIds : (handlers[t].route = "form_team") ~> (handlers[t].route = "none")

\* a team result although the only fetch of the request failed
C17_Witness ==
    /\ reply.route = "form_team" /\ reply.status = 200
    /\ requests = 3
    /\ DOMAIN db_candidates = {1}
    /\ StoredScore(1) = None
    /\ Len(reply.body[1].team) = 1

(***************************************************************************)
(* C18: the result of form_optimal_team (team members, assigned skills,    *)
(* total_expertise, coverage) is the same for any two candidate pools that *)
(* differ only in the special_score values of the candidates: it is the    *)
(* result for the pool with every score unset                              *)
(***************************************************************************)
Unscored(pool) == WithScores(pool, [i \in 1..Len(pool) |-> None])

C18_ScoreBlind ==
    tf_pc = "returned" =>
        tf_response = FormOptimalTeam(tf_project, Unscored(tf_candidates), tf_team_size)

\* a team of one picked among two candidates, of which one has a score
C18_Witness ==
    /\ tf_pc = "returned"
    /\ Len(tf_candidates) = 2
    /\ tf_candidates[1].special_score = None
    /\ tf_candidates[2].special_score # None
    /\ Len(tf_response.team) = 1
    /\ tf_response.total_expertise > 0

(***************************************************************************)
(* C19: the store assigns ids from one counter per entity type, starting   *)
(* at 1: each create returns an id greater than every id issued before for *)
(* that type, so an id is never reused after a delete, and the project and *)
(* candidate counters are independent                                      *)
(***************************************************************************)
\* ids issued so far are those below the counter
C19_IssuedBelowCounter ==
    /\ requests = 0 => (project_id_counter = 1 /\ candidate_id_counter = 1)
    /\ \A id \in DOMAIN db_projects : id < project_id_counter
    /\ \A id \in DOMAIN db_candidates : id < candidate_id_counter

C19_ProjectStep ==
    /\ \A id \in DOMAIN db_projects' \ DOMAIN db_projects :
          /\ id = project_id_counter
          /\ reply' = Response("create_project", 201, Some(db_projects'[id]))
          /\ db_projects'[id].id = id
          /\ candidate_id_counter' = candidate_id_counter
    /\ project_id_counter' =
          IF DOMAIN db_projects' \subseteq DOMAIN db_projects
          THEN project_id_counter ELSE project_id_counter + 1
    /\ \A id \in 1..(project_id_counter - 1) :
          id \notin DOMAIN db_projects => id \notin DOMAIN db_projects'

C19_CandidateStep ==
    /\ \A id \in DOMAIN db_candidates' \ DOMAIN db_candidates :
          /\ id = candidate_id_counter
          /\ reply' = Response("create_candidate", 201, Some(objects'[db_candidates'[id]]))
          /\ objects'[db_candidates'[id]].id = id
          /\ project_id_counter' = project_id_counter
    /\ candidate_id_counter' =
          IF DOMAIN db_candidates' \subseteq DOMAIN db_candidates
          THEN candidate_id_counter ELSE candidate_id_counter + 1
    /\ \A id \in 1..(candidate_id_counter - 1) :
          id \notin DOMAIN db_candidates => id \notin DOMAIN db_candidates'

C19_IdsNeverReused ==
    /\ []C19_IssuedBelowCounter
    /\ [][C19_ProjectStep /\ C19_CandidateStep]_vars

\* project 1 was deleted and the next create got id 2
C19_Witness ==
    /\ reply.route = "create_project" /\ reply.status = 201
    /\ reply.body[1].id = 2
    /\ DOMAIN db_projects = {2}
    /\ project_id_counter = 3
    /\ candidate_id_counter = 1

(***************************************************************************)
(* C20: after a successful delete of a project or candidate id, every      *)
(* later get, update, delete or score update for that id reports not-found *)
(* and the id is never in the store again, whatever operations follow,     *)
(* including a score update from a fetch that started before the delete    *)
(***************************************************************************)
\* the ids that were issued and are no longer stored
DeletedProjects == (1..(project_id_counter - 1)) \ DOMAIN db_projects
DeletedCandidates == (1..(candidate_id_counter - 1)) \ DOMAIN db_candidates

\* the stored candidates are left as they are
StoredCandidatesKept ==
    /\ db_candidates' = db_candidates
    /\ \A id \in DOMAIN db_candidates :
          objects'[db_candidates[id]] = objects[db_candidates[id]]

C20_DeleteRemoves ==
    /\ \A id \in DOMAIN db_projects :
          delete_project(id) =>
              /\ reply' = Response("delete_project", 204, <<>>)
              /\ id \notin DOMAIN db_projects'
    /\ \A id \in DOMAIN db_candidates :
          delete_candidate(id) =>
              /\ reply' = Response("delete_candidate", 204, <<>>)
              /\ id \notin DOMAIN db_candidates'

C20_ProjectGone ==
    \A id \in DeletedProjects :
        /\ id \notin DOMAIN db_projects'
        /\ get_project(id) => reply' = NotFound("get_project")
        /\ \A project \in ProjectCreates :
              update_project(id, project) => reply' = NotFound("update_project")
        /\ delete_project(id) => reply' = NotFound("delete_project")
        /\ \A t \in TaskIds : \A request \in TeamFormationRequests :
              (request.project_id = id /\ form_team(t, request))
                  => reply' = NotFound("form_team")

C20_CandidateGone ==
    \A id \in DeletedCandidates :
        /\ id \notin DOMAIN db_candidates'
        /\ \A t \in TaskIds : get_candidate(t, id) => reply' = NotFound("get_candidate")
        /\ \A candidate \in CandidateCreates :
              update_candidate(id, candidate) => reply' = NotFound("update_candidate")
        /\ delete_candidate(id) => reply' = NotFound("delete_candidate")
        /\ \A t \in TaskIds : \A out \in Outcomes :
              (handlers[t].route = "get_candidate" /\ handlers[t].candidate_id = id
                  /\ ScoreArrives(t, out)) => StoredCandidatesKept

\* Database.update_candidate_score changes nothing for a deleted id
C20_ScoreUpdateFindsNothing ==
    \A id \in DeletedCandidates : \A s \in {Mean(l) : l \in SubScoreLists \ {<<>>}} :
        db_update_candidate_score(objects, id, s) = objects

C20_DeletedStaysDeleted ==
    /\ []C20_ScoreUpdateFindsNothing
    /\ [][C20_DeleteRemoves /\ C20_ProjectGone /\ C20_CandidateGone]_vars

\* candidate 1 was deleted while its score was being fetched, and the score
\* has arrived
C20_Witness ==
    /\ reply.route = "get_candidate" /\ reply.status = 200
    /\ candidate_id_counter = 2
    /\ DOMAIN db_candidates = {}
    /\ Len(objects) = 1
    /\ objects[1].special_score # None
    /\ \A t \in TaskIds : handlers[t].route = "none"

(***************************************************************************)
(* C21: form_optimal_team, get_candidate_score and                         *)
(* get_candidate_scores_batch leave the record store as it is (projects,   *)
(* candidates, their fields, both id counters); a stored score is written  *)
(* only by the route handler that called them                              *)
(***************************************************************************)
\* slot t is inside its call of the scoring client before and after the step
InsideClient(t) ==
    /\ handlers[t].route # "none"
    /\ handlers'[t] = handlers[t]
    /\ tasks'[t] # tasks[t]

\* the heap differs only by the scores the handler h writes from results, to
\* the candidate objects it holds and to those the store holds under their ids
OnlyHandlerWrites(h, results) ==
    /\ Len(objects') = Len(objects)
    /\ \A i \in 1..Len(objects) :
          \/ objects'[i] = objects[i]
          \/ /\ \/ \E j \in 1..Len(h.refs) : h.refs[j] = i
                \/ \E id \in DOMAIN db_candidates :
                      db_candidates[id] = i /\ objects[i].id = id
             /\ Str(objects[i].id) \in DOMAIN results
             /\ objects'[i] = [objects[i] EXCEPT
                                  !.special_score = Some(results[Str(objects[i].id)])]

C21_StoreFrame ==
    [][/\ \A t \in TaskIds : InsideClient(t) => UNCHANGED dbVars
       /\ \A t \in TaskIds : \A out \in Outcomes :
             AnsweredBy(t, out) =>
                 /\ UNCHANGED <<db_projects, db_candidates, project_id_counter,
                                candidate_id_counter>>
                 /\ OnlyHandlerWrites(handlers[t], BatchAfter(t, out).results)]_vars

\* a request waits in the backoff of its fetch for a stored candidate
C21_Witness ==
    \E t \in TaskIds :
        /\ handlers[t].route = "form_team"
        /\ tasks[t].pc = "sleep"
        /\ tasks[t].attempt >= 1
        /\ DOMAIN db_candidates = {1}
        /\ StoredScore(1) = None

(***************************************************************************)
(* C22: on the first successful attempt of a get_candidate_score call the  *)
(* score is in the cache under the key of the call when the call returns   *)
(* it, and the call makes no upstream attempt and no sleep after that      *)
(* attempt                                                                 *)
(***************************************************************************)
\* the pending attempt of caller t succeeds in this step with the score out.value
SucceedsIn(t, out) ==
    /\ tasks[t].pc = "attempt"
    /\ ~ out.raised /\ out.value # None
    /\ UpstreamResponds(t, out)

\* a call that has returned is left as it is
ReturnedCallsKept(t) ==
    \A i \in 1..Len(tasks[t].log) :
        (tasks[t].log[i].fin /\ tasks'[t].kind # "idle") =>
            tasks'[t].log[i] = tasks[t].log[i]

C22_SuccessCachedThenReturned ==
    [][\A t \in TaskIds :
          /\ ReturnedCallsKept(t)
          /\ \A out \in Outcomes :
                SucceedsIn(t, out) =>
                    LET i == tasks[t].idx
                        key == EntryKey(tasks[t].entries[i])
                    IN  /\ key \in DOMAIN cache'
                        /\ cache'[key] = out.value[1]
                        /\ \A k \in DOMAIN cache' \ {key} :
                              k \in DOMAIN cache /\ cache'[k] = cache[k]
                        /\ tasks'[t].log[i].fin
                        /\ tasks'[t].log[i].score = out.value
                        /\ tasks'[t].log[i].upstream = tasks[t].attempt + 1
                        /\ tasks'[t].log[i].sleeps = tasks[t].log[i].sleeps
                        /\ Len(tasks'[t].log[i].sleeps) = tasks[t].attempt]_vars

\* a call returned the score of its third attempt and the caller has gone on
C22_Witness ==
    \E t \in TaskIds :
        /\ Len(tasks[t].log) = 2
        /\ tasks[t].log[1].fin /\ ~ tasks[t].log[1].hit
        /\ tasks[t].log[1].score # None
        /\ tasks[t].log[1].upstream = 3
        /\ tasks[t].log[1].sleeps = <<1, 2>>
        /\ EntryKey(tasks[t].entries[1]) \in DOMAIN cache

(***************************************************************************)
(* C23: an upstream response with success=true and no sub-score is a       *)
(* failed attempt: nothing is cached for it and the retry loop goes on to  *)
(* its backoff and its next attempt exactly as after a transport failure   *)
(***************************************************************************)
EmptySuccess == [kind |-> "ok", special_scores |-> <<>>]
TransportFailure == [kind |-> "transport_error", special_scores |-> <<>>]

C23_EmptySuccessIsFailure ==
    \A t \in TaskIds :
        tasks[t].pc = "attempt" =>
            LET after == AfterResponse(tasks[t], cache, EmptySuccess)
                i == tasks[t].idx
            IN  /\ after = AfterResponse(tasks[t], cache, TransportFailure)
                /\ after.cache = cache
                /\ ~ after.task.escaped
                /\ after.task.log[i].score = None
                /\ after.task.log[i].upstream = tasks[t].attempt + 1
                /\ IF tasks[t].attempt < MaxRetries - 1
                   THEN /\ after.task.pc = "sleep"
                        /\ ~ after.task.log[i].fin
                        /\ after.task.log[i].sleeps
                              = Append(tasks[t].log[i].sleeps, WaitTime(tasks[t].attempt))
                        /\ NextIteration(after.task, cache).pc = "attempt"
                        /\ NextIteration(after.task, cache).attempt = tasks[t].attempt + 1
                   ELSE after.task.log[i].fin

\* the caller is in the backoff that an empty success of its second attempt
\* leads to, and nothing is cached
C23_Witness ==
    \E t \in TaskIds :
        /\ tasks[t].pc = "sleep"
        /\ tasks[t].attempt = 1
        /\ cache = EmptyMap
        /\ LET i == tasks[t].idx
               before == [tasks[t] EXCEPT !.pc = "attempt", !.log[i].sleeps = <<1>>]
           IN  AfterResponse(before, cache, EmptySuccess).task = tasks[t]

(***************************************************************************)
(* C24: among the subsets of the effective size that tie on coverage and   *)
(* total_expertise at the optimum, form_optimal_team returns the           *)
(* evaluation of the one enumerated first, the subsets being enumerated in *)
(* lexicographic order of their positions in the candidate sequence        *)
(***************************************************************************)
LexLess(a, b) ==
    \E p \in 1..Len(a) : a[p] < b[p] /\ \A q \in 1..(p - 1) : a[q] = b[q]

\* combos lists every set of k positions among 1..n once, positions increasing,
\* in lexicographic order
InLexOrder(combos, n, k) ==
    /\ \A i \in 1..Len(combos) :
          /\ Len(combos[i]) = k
          /\ \A p \in 1..(k - 1) : combos[i][p] < combos[i][p + 1]
          /\ \A p \in 1..k : combos[i][p] \in 1..n
    /\ \A i \in 1..(Len(combos) - 1) : LexLess(combos[i], combos[i + 1])
    /\ {{combos[i][p] : p \in 1..k} : i \in 1..Len(combos)} = SubsetsOfSize(n, k)

\* evaluation a is at least as good as evaluation b
AtLeastAsGood(a, b) ==
    \/ CovGT(a.coverage, b.coverage)
    \/ (CovEQ(a.coverage, b.coverage) /\ a.total_expertise >= b.total_expertise)

C24_FirstOptimumWins ==
    C1_Called =>
        LET n == Len(tf_candidates)
            k == Min(tf_team_size, n)
            combos == Combinations(n, k)
            evals == [i \in 1..Len(tf_evaluated) |->
                         EvaluateTeam(tf_evaluated[i], RequiredSkills(tf_project))]
            optima == {i \in 1..Len(evals) :
                          \A j \in 1..Len(evals) : AtLeastAsGood(evals[i], evals[j])}
            first == CHOOSE i \in optima : \A j \in optima : i <= j
        IN  /\ InLexOrder(combos, n, k)
            /\ Len(tf_evaluated) = Len(combos)
            /\ \A i \in 1..Len(combos) : tf_evaluated[i] = SubTeam(tf_candidates, combos[i])
            /\ optima # {}
            /\ tf_response = evals[first]

\* two subsets tie at the optimum with different members, and the first is
\* returned
C24_Witness ==
    /\ C1_Called
    /\ Len(tf_evaluated) >= 2
    /\ tf_response.total_expertise > 0
    /\ \E i, j \in 1..Len(tf_evaluated) :
          LET a == EvaluateTeam(tf_evaluated[i], RequiredSkills(tf_project))
              b == EvaluateTeam(tf_evaluated[j], RequiredSkills(tf_project))
          IN  /\ i < j
              /\ a = tf_response
              /\ b # a
              /\ CovEQ(a.coverage, b.coverage)
              /\ a.total_expertise = b.total_expertise

(***************************************************************************)
(* C25: in _evaluate_team each required skill held by the subset is        *)
(* assigned to the member holding it at the greatest expertise_level, to   *)
(* the first such member in subset order when several hold it at that      *)
(* level: a later member replaces an assignment only with a strictly       *)
(* greater level                                                           *)
(***************************************************************************)
\* the member at position p of team holds skill at level
HoldsAt(team, p, skill, level) ==
    \E j \in 1..Len(team[p].skills) :
        /\ team[p].skills[j].name = skill
        /\ team[p].skills[j].expertise_level = level

\* the first position of team whose member holds skill at the greatest level
FirstBestHolder(team, skill) ==
    LET top == MaxOf(LevelsHeld(team, skill))
    IN  CHOOSE p \in 1..Len(team) :
            /\ HoldsAt(team, p, skill, top)
            /\ \A q \in 1..(p - 1) : ~ HoldsAt(team, q, skill, top)

\* the members of an evaluation to which skill is assigned
MembersAssigned(members, skill) ==
    {m \in 1..Len(members) :
        \E j \in 1..Len(members[m].assigned_skills) : members[m].assigned_skills[j] = skill}

C25_AssignedToFirstBest ==
    C1_Called =>
        \A s \in 1..Len(tf_evaluated) : \A skill \in RequiredSkills(tf_project) :
            LET team == tf_evaluated[s]
                assignments == SkillAssignments(team, RequiredSkills(tf_project))
                members == EvaluateTeam(team, RequiredSkills(tf_project)).team
                i == DictIndex(assignments, skill)
            IN  IF LevelsHeld(team, skill) = {}
                THEN i = 0 /\ MembersAssigned(members, skill) = {}
                ELSE /\ i # 0
                     /\ \A j \in 1..Len(assignments) : assignments[j].skill = skill => j = i
                     /\ assignments[i].expertise = MaxOf(LevelsHeld(team, skill))
                     /\ assignments[i].id = team[FirstBestHolder(team, skill)].id
                     /\ assignments[i].name = team[FirstBestHolder(team, skill)].name
                     /\ \E m \in 1..Len(members) :
                           /\ MembersAssigned(members, skill) = {m}
                           /\ members[m].candidate_id = assignments[i].id

\* two different members hold a required skill at the same greatest level and
\* the first of them is returned with it
C25_Witness ==
    /\ C1_Called
    /\ Len(tf_candidates) = 2 /\ tf_team_size = 2
    /\ tf_candidates[1].id # tf_candidates[2].id
    /\ \E skill \in RequiredSkills(tf_project) : \E level \in Levels :
          /\ HoldsAt(tf_candidates, 1, skill, level)
          /\ HoldsAt(tf_candidates, 2, skill, level)
          /\ level = MaxOf(LevelsHeld(tf_candidates, skill))
          /\ \E m \in 1..Len(tf_response.team) :
                /\ tf_response.team[m].candidate_id = tf_candidates[1].id
                /\ m \in MembersAssigned(tf_response.team, skill)

(***************************************************************************)
(* C26 as stated: each returned member's assigned_skills lists exactly the *)
(* required-skill names assigned to that member, in the order of the       *)
(* project's required-skill list, not in the order in which the candidates *)
(* list their skills                                                       *)
(***************************************************************************)
\* the names of seq that are in keep, each once, in the order of seq
RECURSIVE NamesInOrder(_, _)
NamesInOrder(seq, keep) ==
    IF seq = <<>> THEN <<>>
    ELSE IF Head(seq).name \in keep
         THEN <<Head(seq).name>> \o NamesInOrder(Tail(seq), keep \ {Head(seq).name})
         ELSE NamesInOrder(Tail(seq), keep)

C26_RequiredListOrder ==
    C1_Called =>
        \A m \in 1..Len(tf_response.team) :
            LET assigned == tf_response.team[m].assigned_skills
            IN  assigned = NamesInOrder(tf_project, {assigned[j] : j \in 1..Len(assigned)})

(***************************************************************************)
(* C27: the coverage of an evaluated subset is the number of distinct      *)
(* required-skill names held by at least one member of the subset divided  *)
(* by the number of distinct required-skill names of the project, a name   *)
(* the project lists twice counting once, and 0.0 when the project has no  *)
(* required skill                                                          *)
(***************************************************************************)
DistinctRequired == {tf_project[i].name : i \in 1..Len(tf_project)}

HeldRequired(team) == {skill \in DistinctRequired : LevelsHeld(team, skill) # {}}

C27_CoverageIsRatio ==
    C1_Called =>
        \A s \in 1..Len(tf_evaluated) :
            LET coverage == EvaluateTeam(tf_evaluated[s], RequiredSkills(tf_project)).coverage
            IN  IF DistinctRequired = {}
                THEN coverage = ZeroCov
                ELSE coverage = <<Cardinality(HeldRequired(tf_evaluated[s])),
                                  Cardinality(DistinctRequired)>>

\* the project lists one name twice, two members hold it, and the coverage is 1/1
C27_Witness ==
    /\ C1_Called
    /\ Len(tf_project) = 2
    /\ tf_project[1].name = tf_project[2].name
    /\ Len(tf_candidates) = 2 /\ tf_team_size = 2
    /\ \A p \in 1..2 : LevelsHeld(<<tf_candidates[p]>>, tf_project[1].name) # {}
    /\ tf_response.coverage = <<1, 1>>

(***************************************************************************)
(* C28: in a form-team request the engine is invoked only after the        *)
(* scoring batch for the candidates whose score was unset has returned,    *)
(* and the scoring client is asked only for those candidates: a candidate  *)
(* that already has a score never causes an upstream call                  *)
(***************************************************************************)
\* the positions of refs whose candidate has no score
UnsetAmong(refs) == {j \in 1..Len(refs) : objects[refs[j]].special_score = None}

\* what the client is asked for the candidate at ref
AskedFor(ref) == <<Str(objects[ref].id), SkillsData(objects[ref].skills)>>

C28_AtArrival(t, request) ==
    LET found == db_get_candidates_by_ids(request.candidate_ids)
    IN  IF UnsetAmong(found) = {}
        THEN /\ UNCHANGED <<tasks, cache, handlers, objects>>
             /\ reply'.route = "form_team" /\ reply'.status = 200
        ELSE handlers'[t].route = "form_team" =>
                /\ reply' = reply
                /\ Len(tasks'[t].entries) = Cardinality(UnsetAmong(found))
                /\ \A i \in 1..Len(tasks'[t].entries) :
                      \E j \in UnsetAmong(found) : tasks'[t].entries[i] = AskedFor(found[j])
                /\ \A j \in UnsetAmong(found) :
                      \E i \in 1..Len(tasks'[t].entries) : tasks'[t].entries[i] = AskedFor(found[j])

C28_WhileWaiting(t) ==
    (handlers[t].route = "form_team" /\ handlers'[t].route = "form_team") =>
        /\ reply' = reply \/ reply'.route # "form_team"
        /\ tasks'[t].entries = tasks[t].entries
        /\ handlers'[t] = handlers[t]

C28_ScoresBeforeEngine ==
    [][\A t \in TaskIds :
          /\ \A request \in TeamFormationRequests :
                (~ NothingFound(request) /\ form_team(t, request)) => C28_AtArrival(t, request)
          /\ C28_WhileWaiting(t)
          /\ \A out \in Outcomes :
                AnsweredBy(t, out) =>
                    LET task == BatchAfter(t, out)
                    IN  /\ task.pc = "done"
                        /\ Len(task.log) = Len(task.entries)
                        /\ \A i \in 1..Len(task.log) : task.log[i].fin]_vars

\* a request for a candidate with a score and one without waits for the one
\* fetch it asked for
C28_Witness ==
    \E t \in TaskIds :
        /\ handlers[t].route = "form_team"
        /\ Len(handlers[t].refs) = 2
        /\ objects[handlers[t].refs[1]].special_score # None
        /\ objects[handlers[t].refs[2]].special_score = None
        /\ tasks[t].entries = <<AskedFor(handlers[t].refs[2])>>
        /\ tasks[t].pc = "sleep"

(***************************************************************************)
(* C29: every started get_candidate_score call eventually returns, a score *)
(* or None, after at most max_retries upstream attempts and at most        *)
(* max_retries - 1 sleeps, given that every attempt and every sleep ends;  *)
(* an attempt that exceeds its timeout is one failed attempt and does not  *)
(* end the call                                                            *)
(***************************************************************************)
TimedOut == [kind |-> "timeout", special_scores |-> <<>>]

\* call i of caller t is started and has not returned
Running(t, i) == i <= Len(tasks[t].log) /\ ~ tasks[t].log[i].fin

\* call i of caller t has returned
HasReturned(t, i) == i <= Len(tasks[t].log) /\ tasks[t].log[i].fin

C29_Bounded ==
    /\ \A call \in Calls :
          /\ LogOf(call).upstream <= MaxRetries
          /\ Len(LogOf(call).sleeps) <= MaxRetries - 1
    /\ \A t \in TaskIds :
          tasks[t].pc = "attempt" =>
              LET after == AfterResponse(tasks[t], cache, TimedOut).task
                  i == tasks[t].idx
              IN  /\ ~ after.escaped
                  /\ after.log[i].upstream = tasks[t].attempt + 1
                  /\ after.log[i].score = None
                  /\ tasks[t].attempt < MaxRetries - 1 =>
                        (after.pc = "sleep" /\ ~ after.log[i].fin)

C29_CallReturns ==
    /\ []C29_Bounded
    /\ \A t \in TaskIds : \A i \in 1..MaxCalls : Running(t, i) ~> HasReturned(t, i)

\* a call has returned a score after one failed attempt, a timeout among its
\* possible causes, and one sleep
C29_Witness ==
    \E call \in Calls :
        /\ LogOf(call).fin /\ ~ LogOf(call).hit
        /\ LogOf(call).score # None
        /\ LogOf(call).upstream = 2
        /\ LogOf(call).sleeps = <<1>>

(***************************************************************************)
(* C30 as stated: with the default settings a call waits 2^attempt seconds *)
(* after each failed attempt (counted from 0) except the last, and the     *)
(* waits of a call whose attempts all fail are 1s, 2s, 4s, 8s and 16s      *)
(***************************************************************************)
\* the j-th wait of a call follows its attempt j - 1
WaitsDouble(sleeps) == \A j \in 1..Len(sleeps) : sleeps[j] = 2 ^ (j - 1)

C30_WaitsUpTo16 ==
    \A call \in Calls :
        /\ WaitsDouble(LogOf(call).sleeps)
        /\ AllFailed(call) => LogOf(call).sleeps = <<1, 2, 4, 8, 16>>

(***************************************************************************)
(* C30 amended: with the default settings a call waits 2^attempt seconds   *)
(* after each failed attempt (counted from 0) except the last, and the     *)
(* waits of a call whose attempts all fail are 1s, 2s, 4s and 8s: the      *)
(* fifth attempt is the last and no wait follows it                        *)
(***************************************************************************)
\* the waits a call has taken when it has made its upstream calls: one after
\* each but the latest, and one after the latest while the caller sleeps
WaitsTaken(t, i) ==
    LET l == tasks[t].log[i]
    IN  IF l.hit THEN 0
        ELSE IF ~ l.fin /\ tasks[t].pc = "sleep" THEN l.upstream
        ELSE l.upstream - 1

C30_WaitsUpTo8 ==
    \A call \in Calls :
        /\ WaitsDouble(LogOf(call).sleeps)
        /\ Len(LogOf(call).sleeps) = WaitsTaken(call[1], call[2])
        /\ AllFailed(call) =>
              /\ LogOf(call).upstream = MaxRetries
              /\ LogOf(call).sleeps = <<1, 2, 4, 8>>

\* a call has failed five times and waited 1, 2, 4 and 8 seconds
C30_Witness ==
    \E call \in Calls :
        /\ AllFailed(call)
        /\ LogOf(call).upstream = MaxRetries
        /\ LogOf(call).sleeps = <<1, 2, 4, 8>>

(***************************************************************************)
(* C31: a form-team request for a stored project, some of whose candidate  *)
(* ids are stored and some are not, is not answered with not-found: the    *)
(* team is the engine's result for the stored candidates of the request,   *)
(* one for each occurrence of a stored id, in the order of the request,    *)
(* the ids that are not stored being left out                              *)
(***************************************************************************)
InStore(candidate_id) == candidate_id \in DOMAIN db_candidates

SomeButNotAll(candidate_ids) ==
    /\ \E i \in 1..Len(candidate_ids) : InStore(candidate_ids[i])
    /\ \E i \in 1..Len(candidate_ids) : ~ InStore(candidate_ids[i])

\* the stored candidates of the ids, as they stand in the heap objs
ExistingOnly(candidate_ids, objs) ==
    LET existing == SelectSeq(candidate_ids, InStore)
    IN  [i \in 1..Len(existing) |-> objs[db_candidates[existing[i]]]]

TeamOfExisting(project, candidate_ids, team_size, objs) ==
    Response("form_team", 200,
             Some(FormOptimalTeam(project.skills, ExistingOnly(candidate_ids, objs),
                                  team_size)))

\* a waiting form-team request holds the stored candidates of its ids
C31_HeldWhileWaiting ==
    \A t \in TaskIds :
        handlers[t].route = "form_team" /\ SomeButNotAll(handlers[t].candidate_ids) =>
            [i \in 1..Len(handlers[t].refs) |-> objects[handlers[t].refs[i]]]
                = ExistingOnly(handlers[t].candidate_ids, objects)

\* the request arrives: it is answered with the team at once or it waits for scores
C31_AtArrival ==
    \A t \in TaskIds, request \in LongTeamFormationRequests :
        /\ requests' = requests + 1
        /\ request.project_id \in DOMAIN db_projects
        /\ SomeButNotAll(request.candidate_ids)
        /\ handlers'[t].route = "form_team" =>
               handlers'[t].candidate_ids = request.candidate_ids
        /\ form_team(t, request)
        => \/ /\ handlers'[t].route = "form_team"
              /\ handlers'[t].refs # <<>>
              /\ reply' = reply
           \/ /\ handlers'[t].route = "none"
              /\ reply' = TeamOfExisting(db_projects[request.project_id],
                                         request.candidate_ids, request.team_size,
                                         objects')

\* the waiting request is answered
C31_AtAnswer ==
    \A t \in TaskIds :
        /\ handlers[t].route = "form_team"
        /\ handlers'[t].route = "none"
        /\ SomeButNotAll(handlers[t].candidate_ids)
        => /\ reply'.status # 404
           /\ reply' = TeamOfExisting(handlers[t].project[1], handlers[t].candidate_ids,
                                      handlers[t].team_size, objects')

C31_UnknownIdsDropped ==
    /\ []C31_HeldWhileWaiting
    /\ [][C31_AtArrival /\ C31_AtAnswer]_vars

\* a request that names a stored candidate twice and a candidate that is not
\* stored waits for scores with the stored candidate held twice
C31_Witness ==
    \E t \in TaskIds :
        /\ handlers[t].route = "form_team"
        /\ SomeButNotAll(handlers[t].candidate_ids)
        /\ Len(handlers[t].candidate_ids) = 3
        /\ Len(handlers[t].refs) = 2
        /\ handlers[t].refs[1] = handlers[t].refs[2]
====
